---- MODULE Spec2Model ----
(***************************************************************************)
(* A model of the popefeed scrapper: the merge store (deep_merge,          *)
(* save_api_file), the crawl orchestrator (run_scraper) and the steps that *)
(* rewrite the persisted author list.                                      *)
(*                                                                         *)
(* JSON values.  Every value is a record with the same five fields, so     *)
(* that any two values can be compared:                                    *)
(*   t  : "null" | "num" | "str" | "list" | "dict"                         *)
(*   n  : the number of a "num"                                            *)
(*   s  : the text of a "str"                                              *)
(*   ks : the keys of a "dict", in insertion order (Python dicts and the   *)
(*        JSON text written from them keep that order)                     *)
(*   l  : the elements of a "list", or the values of a "dict" (l[i] is the *)
(*        value of key ks[i])                                              *)
(***************************************************************************)
EXTENDS Integers, Sequences, FiniteSets, TLC

JNull == [t |-> "null", n |-> 0, s |-> "", ks |-> <<>>, l |-> <<>>]

Num(i) == [t |-> "num", n |-> i, s |-> "", ks |-> <<>>, l |-> <<>>]

Str(x) == [t |-> "str", n |-> 0, s |-> x, ks |-> <<>>, l |-> <<>>]

List(xs) == [t |-> "list", n |-> 0, s |-> "", ks |-> <<>>, l |-> xs]

Dict(keys, vals) == [t |-> "dict", n |-> 0, s |-> "", ks |-> keys, l |-> vals]

EmptyDict == Dict(<<>>, <<>>)

IsDict(x) == x.t = "dict"

IsList(x) == x.t = "list"

\* isinstance(x, (dict, list))
IsMergeable(x) == IsDict(x) \/ IsList(x)

KeySet(d) == {d.ks[i] : i \in 1..Len(d.ks)}

\* key in d
HasKey(d, key) == IsDict(d) /\ key \in KeySet(d)

\* d[key]
Get(d, key) == d.l[CHOOSE i \in 1..Len(d.ks) : d.ks[i] = key]

\* d.get(key, default)
GetOr(d, key, default) == IF HasKey(d, key) THEN Get(d, key) ELSE default

\* d[key] = value: an existing key keeps its place, a new key goes last
SetKey(d, key, value) ==
    IF key \in KeySet(d)
    THEN Dict(d.ks, [i \in 1..Len(d.l) |-> IF d.ks[i] = key THEN value ELSE d.l[i]])
    ELSE Dict(Append(d.ks, key), Append(d.l, value))

RECURSIVE PyEq(_, _)
\* Python's ==, as `item not in destination` applies it: mappings compare
\* without regard to key order, sequences element by element.
PyEq(a, b) ==
    IF a.t # b.t THEN FALSE
    ELSE IF a.t = "list"
         THEN Len(a.l) = Len(b.l) /\ \A i \in 1..Len(a.l) : PyEq(a.l[i], b.l[i])
    ELSE IF a.t = "dict"
         THEN /\ KeySet(a) = KeySet(b)
              /\ \A i \in 1..Len(a.ks) : PyEq(a.l[i], Get(b, a.ks[i]))
    ELSE a = b

\* item in xs
PyIn(item, xs) == \E i \in 1..Len(xs) : PyEq(xs[i], item)

\* all(isinstance(item, dict) and "id" in item for item in xs)
AllHaveId(xs) == \A i \in 1..Len(xs) : HasKey(xs[i], "id")

\* The place of the element keyed `id` in an id-keyed sequence, 0 if none.
IdIndex(xs, id) ==
    IF \E i \in 1..Len(xs) : Get(xs[i], "id") = id
    THEN CHOOSE i \in 1..Len(xs) : Get(xs[i], "id") = id
    ELSE 0

\* destination_map[item["id"]] = item on an insertion-ordered dict, kept as
\* the sequence of its values (each value carries its key in its id field)
MapPut(dmap, item) ==
    LET at == IdIndex(dmap, Get(item, "id"))
    IN  IF at = 0 THEN Append(dmap, item)
        ELSE [i \in 1..Len(dmap) |-> IF i = at THEN item ELSE dmap[i]]

\* {item["id"]: item for item in destination}
destination_map(destination) ==
    LET f[i \in 0..Len(destination)] ==
            IF i = 0 THEN <<>> ELSE MapPut(f[i - 1], destination[i])
    IN  f[Len(destination)]

RECURSIVE deep_merge(_, _)

\* a slip: the new value always replaces the old, nested values are not merged
MergeKey_Replace(destination, key, value) == SetKey(destination, key, value)

\* one turn of `for key, value in source.items()`
MergeKey(destination, key, value) ==
    IF /\ HasKey(destination, key)
       /\ IsMergeable(Get(destination, key))
       /\ IsMergeable(value)
    THEN SetKey(destination, key, deep_merge(value, Get(destination, key)))
    ELSE SetKey(destination, key, value)

\* both are mappings
MergeDict(source, destination) ==
    LET f[i \in 0..Len(source.ks)] ==
            IF i = 0 THEN destination
            ELSE MergeKey(f[i - 1], source.ks[i], source.l[i])
    IN  f[Len(source.ks)]

\* a slip: the new element replaces the existing one instead of merging into it
MergeItem_Overwrite(dmap, item) == MapPut(dmap, item)

\* one turn of `for item in source` over the keyed map
MergeItem(dmap, item) ==
    LET at == IdIndex(dmap, Get(item, "id"))
    IN  IF at # 0
        THEN [i \in 1..Len(dmap) |->
                 IF i = at THEN deep_merge(item, dmap[at]) ELSE dmap[i]]
        ELSE Append(dmap, item)

\* both are sequences of id-carrying mappings
MergeKeyed(source, destination) ==
    LET f[i \in 0..Len(source)] ==
            IF i = 0 THEN destination_map(destination)
            ELSE MergeItem(f[i - 1], source[i])
    IN  f[Len(source)]

\* a slip: destination.extend(source), no membership test
AppendUnique_Extend(source, destination) == destination \o source

\* both are sequences, not both id-keyed
AppendUnique(source, destination) ==
    LET f[i \in 0..Len(source)] ==
            IF i = 0 THEN destination
            ELSE IF PyIn(source[i], f[i - 1]) THEN f[i - 1]
                 ELSE Append(f[i - 1], source[i])
    IN  f[Len(source)]

deep_merge(source, destination) ==
    IF IsDict(source) /\ IsDict(destination)
    THEN MergeDict(source, destination)
    ELSE IF IsList(source) /\ IsList(destination)
    THEN IF AllHaveId(source.l) /\ AllHaveId(destination.l)
         THEN List(MergeKeyed(source.l, destination.l))
         ELSE List(AppendUnique(source.l, destination.l))
    ELSE source

(***************************************************************************)
(* Files.  A file is absent, holds text that is no JSON ("garbage": an     *)
(* empty or truncated file), holds bytes that are no UTF-8 ("badbytes": a  *)
(* file cut inside a multi-byte character), or holds the JSON text of a    *)
(* value written with a given indent.                                      *)
(***************************************************************************)
Absent == [t |-> "absent", indent |-> 0, v |-> JNull]

Garbage == [t |-> "garbage", indent |-> 0, v |-> JNull]

BadBytes == [t |-> "badbytes", indent |-> 0, v |-> JNull]

\* json.dump(value, f, ensure_ascii=False, indent=indent)
json_dump(value, indent) == [t |-> "text", indent |-> indent, v |-> value]

\* json.load(f) on a file opened with encoding="utf-8":
\*   ok    - the decoded value
\*   error - "JSONDecodeError" | "UnicodeDecodeError" when ok is FALSE
json_load(file) ==
    IF file.t = "text" THEN [ok |-> TRUE, value |-> file.v, error |-> ""]
    ELSE IF file.t = "badbytes"
    THEN [ok |-> FALSE, value |-> JNull, error |-> "UnicodeDecodeError"]
    ELSE [ok |-> FALSE, value |-> JNull, error |-> "JSONDecodeError"]

SaveIndent == 4

\* save_api_file(file_path, data) on the file now at file_path: the file it
\* leaves, and whether an exception leaves the call.
save_api_file(file, data) ==
    IF file.t = "absent"
    THEN [file |-> json_dump(data, SaveIndent), raised |-> FALSE]
    ELSE LET r == json_load(file)
         IN  IF ~r.ok /\ r.error # "JSONDecodeError"
             THEN [file |-> file, raised |-> TRUE]
             ELSE LET existing_data == IF r.ok THEN r.value ELSE JNull
                      merged_data == IF existing_data # JNull
                                     THEN deep_merge(data, existing_data)
                                     ELSE data
                  IN  [file |-> json_dump(merged_data, SaveIndent), raised |-> FALSE]

\* The paths of the output directory: popes.json, popes/{id}.json and
\* documents/{id}.json
PopesJson == <<"", "popes">>

PopePath(id) == <<"popes", id>>

DocumentPath(id) == <<"documents", id>>

\* The paths of the derived views: posts/index.json, posts/page={n}.json,
\* feed/index.json and feed/pope-{pope_id}.json
PostsIndexPath == <<"posts", "index">>

PostsPagePath(page_num) == <<"posts", "page=" \o ToString(page_num)>>

FeedIndexPath == <<"feed", "index">>

\* a slip: the feed of an author is written over the file of the author
FeedPath_InPopes(pope_id) == PopePath(pope_id)

FeedPath(pope_id) == <<"feed", "pope-" \o pope_id>>

(***************************************************************************)
(* The records of models/.  An object in memory is a TLA+ record; its      *)
(* optional fields hold JNull for None, its dict fields hold a Dict.       *)
(***************************************************************************)

\* Pope(id=..., names={"en": name}, metadata={...}) with every other field
\* at its default
Pope(id, name_en, url_en) ==
    [ id |-> id,
      names |-> Dict(<<"en">>, <<Str(name_en)>>),
      full_name |-> JNull,
      reign_start |-> JNull,
      reign_end |-> JNull,
      image_url |-> JNull,
      local_image_path |-> JNull,
      coat_of_arms_url |-> JNull,
      local_coat_of_arms_path |-> JNull,
      metadata |-> Dict(<<"vatican_urls", "documents_vatican_url_index">>,
                        <<Dict(<<"en">>, <<Str(url_en)>>), EmptyDict>>),
      documents |-> <<>> ]   \* doc_type -> summaries, as <<[type, docs]>>

\* a slip: the summary is built without the excerpt
to_summary_NoExcerpt(doc) ==
    [ id |-> doc.id, pope_id |-> doc.pope_id, type |-> doc.type,
      date |-> doc.date, title |-> doc.title, excerpt |-> EmptyDict ]

\* Document.to_summary
to_summary(doc) ==
    [ id |-> doc.id, pope_id |-> doc.pope_id, type |-> doc.type,
      date |-> doc.date, title |-> doc.title, excerpt |-> doc.excerpt ]

\* DocumentSummary.to_dict
DocumentSummary_to_dict(sm) ==
    Dict(<<"id", "pope_id", "type", "date", "title", "excerpt">>,
         <<Str(sm.id), Str(sm.pope_id), Str(sm.type), sm.date, Str(sm.title),
           sm.excerpt>>)

\* Document.to_dict
Document_to_dict(doc) ==
    Dict(<<"id", "pope_id", "type", "date", "title", "excerpt", "metadata">>,
         <<Str(doc.id), Str(doc.pope_id), Str(doc.type), doc.date,
           Str(doc.title), doc.excerpt, doc.metadata>>)

\* Pope.to_dict
Pope_to_dict(pope) ==
    Dict(<<"id", "names", "full_name", "reign_start", "reign_end", "image_url",
           "local_image_path", "coat_of_arms_url", "local_coat_of_arms_path",
           "metadata", "documents">>,
         <<Str(pope.id), pope.names, pope.full_name, pope.reign_start,
           pope.reign_end, pope.image_url, pope.local_image_path,
           pope.coat_of_arms_url, pope.local_coat_of_arms_path, pope.metadata,
           Dict([i \in 1..Len(pope.documents) |-> pope.documents[i].type],
                [i \in 1..Len(pope.documents) |->
                    List([j \in 1..Len(pope.documents[i].docs) |->
                             DocumentSummary_to_dict(pope.documents[i].docs[j])])])>>)

\* objs[obj.id] = obj on an insertion-ordered dict keyed by id, kept as the
\* sequence of its values
AssignById(objs, obj) ==
    IF \E i \in 1..Len(objs) : objs[i].id = obj.id
    THEN [i \in 1..Len(objs) |-> IF objs[i].id = obj.id THEN obj ELSE objs[i]]
    ELSE Append(objs, obj)

(***************************************************************************)
(* The scrapers.  What the remote site answers is an input of each         *)
(* operator: the page it serves, or a failed fetch.                        *)
(***************************************************************************)

\* VaticanPopeScraper._update_pope_details on the detail page served:
\*   fetched - the GET succeeded and the page has div.info
\*   latin, birth - the h1 name and the h2 i name, JNull when not there
\*   start, end - the reign dates as parse_vatican_date returns them
_update_pope_details(pope, page) ==
    IF ~page.fetched THEN pope
    ELSE [pope EXCEPT
             !.names = IF page.latin = JNull THEN @ ELSE SetKey(@, "la", page.latin),
             !.full_name = IF page.birth = JNull THEN @ ELSE page.birth,
             !.reign_start = page.start,
             !.reign_end = page.end]

\* VaticanPopeScraper.scrape_pope_list: links are the author ids of the
\* profile links found (none when the fetch fails or the table is not
\* found), details[i] is the detail page served for links[i]
scrape_pope_list(links, details) ==
    [i \in 1..Len(links) |->
        _update_pope_details(Pope(links[i], "name", links[i]), details[i])]

\* pope.metadata["documents_vatican_url_index"]
IndexOf(pope) == Get(pope.metadata, "documents_vatican_url_index")

\* one sidebar link of update_pope_documents_index: the index URL is put
\* at the end of the list of its document type
AddIndexUrl(pope, link) ==
    LET index == IndexOf(pope)
        urls == IF HasKey(index, link.doc_type) THEN Get(index, link.doc_type).l
                ELSE <<>>
    IN  [pope EXCEPT !.metadata =
            SetKey(@, "documents_vatican_url_index",
                   SetKey(index, link.doc_type, List(Append(urls, Str(link.url)))))]

\* VaticanDocumentsIndexScraper.update_pope_documents_index: sidebar is the
\* sequence of [doc_type, url] of the usable links of the accordion menu
\* (none when the fetch fails or the menu is not found)
update_pope_documents_index(pope, sidebar) ==
    LET f[i \in 0..Len(sidebar)] ==
            IF i = 0 THEN pope ELSE AddIndexUrl(f[i - 1], sidebar[i])
    IN  f[Len(sidebar)]

\* language-keyed map with the same text for every language of langs
LangMap(langs, text) == Dict(langs, [i \in 1..Len(langs) |-> Str(text)])

\* The Document built from one list item of an index page (its language
\* links give vatican_urls), before its content is fetched
CandidateDocument(item, pope_id, doc_type) ==
    [ id |-> item.id, pope_id |-> pope_id, type |-> doc_type,
      date |-> item.date, title |-> item.title, excerpt |-> EmptyDict,
      metadata |-> Dict(<<"vatican_urls", "raw_html">>,
                        <<LangMap(item.langs, "url"), EmptyDict>>) ]

\* VaticanScraper.fetch_document_content: the class under src/ defines no
\* such method, so the call as written raises AttributeError; the behaviour
\* meant is section 4.3's "fetch and attach content for every discovered
\* language".  Both are outcomes here: fetch.raises, or the document with
\* content attached for the languages of fetch.content.
fetch_document_content(document, fetch) ==
    [ raised |-> fetch.raises,
      document |->
          [document EXCEPT
              !.excerpt = LangMap(fetch.content, "excerpt"),
              !.metadata = SetKey(@, "raw_html", LangMap(fetch.content, "html"))] ]

\* str.strip() gives the empty string
IsBlank(text) == text \in {"", " "}

\* any(content.strip() for content in raw_html.values()): the values are
\* stripped in order up to the first that is not blank; a value that is no
\* string has no strip and raises AttributeError
AnyNotBlank(values) ==
    LET f[i \in 0..Len(values)] ==
            IF i = 0 THEN [value |-> FALSE, raised |-> FALSE]
            ELSE IF f[i - 1].value \/ f[i - 1].raised THEN f[i - 1]
            ELSE IF values[i].t # "str" THEN [value |-> FALSE, raised |-> TRUE]
            ELSE [value |-> ~IsBlank(values[i].s), raised |-> FALSE]
    IN  f[Len(values)]

\* data.get("metadata", {}).get("raw_html", {}): raises AttributeError when
\* data or its metadata is no dict
RawHtmlOf(data) ==
    IF ~IsDict(data) THEN [value |-> JNull, raised |-> TRUE]
    ELSE LET metadata == GetOr(data, "metadata", EmptyDict)
         IN  IF ~IsDict(metadata) THEN [value |-> JNull, raised |-> TRUE]
             ELSE [value |-> GetOr(metadata, "raw_html", EmptyDict), raised |-> FALSE]

\* len(raw_html) > 0 and any(content.strip() for content in
\* raw_html.values()), on what RawHtmlOf gave: a raw_html that is no dict
\* raises TypeError or AttributeError unless it is an empty list or string
HasRawContent(raw_html) ==
    IF raw_html.raised THEN [value |-> FALSE, raised |-> TRUE]
    ELSE IF IsDict(raw_html.value)
    THEN IF Len(raw_html.value.l) > 0 THEN AnyNotBlank(raw_html.value.l)
         ELSE [value |-> FALSE, raised |-> FALSE]
    ELSE IF raw_html.value.t = "list" /\ raw_html.value.l = <<>>
    THEN [value |-> FALSE, raised |-> FALSE]
    ELSE IF raw_html.value.t = "str" /\ raw_html.value.s = ""
    THEN [value |-> FALSE, raised |-> FALSE]
    ELSE [value |-> FALSE, raised |-> TRUE]

\* the try block of _document_has_content on what json.load gave:
\* JSONDecodeError is caught and gives False, UnicodeDecodeError is not
HasContentLoaded(r) ==
    IF r.ok THEN HasRawContent(RawHtmlOf(r.value))
    ELSE [value |-> FALSE, raised |-> r.error # "JSONDecodeError"]

_document_has_content_Never(resume, file) == [value |-> FALSE, raised |-> FALSE]

\* VaticanDocumentsIndexScraper._document_has_content on the file now at
\* documents/{document_id}.json: the value returned, or raised when an
\* exception other than JSONDecodeError, FileNotFoundError and KeyError
\* leaves the method
_document_has_content(resume, file) ==
    IF ~resume \/ file.t = "absent" THEN [value |-> FALSE, raised |-> FALSE]
    ELSE HasContentLoaded(json_load(file))

\* document.excerpt = existing_data.get("excerpt", {}) and
\* document.metadata["raw_html"] = ..., on what json.load and RawHtmlOf gave
WithExisting(document, r, raw_html) ==
    IF ~r.ok \/ raw_html.raised
    THEN [failed |-> TRUE, document |-> document]
    ELSE [failed |-> FALSE,
          document |->
              [document EXCEPT
                  !.excerpt = GetOr(r.value, "excerpt", EmptyDict),
                  !.metadata = SetKey(@, "raw_html", raw_html.value)]]

\* "Load existing document data to preserve existing content": the document
\* with the excerpt and the raw content of the file; failed when the file
\* cannot be read that way (any exception is caught there)
LoadExisting(document, file) ==
    IF file.t = "absent" THEN [failed |-> TRUE, document |-> document]
    ELSE WithExisting(document, json_load(file), RawHtmlOf(json_load(file).value))

\* the branches of lines 243-262 on what the calls gave
Candidate(has, existing, content, candidate) ==
    IF has.raised
    THEN [raised |-> TRUE, fetched |-> FALSE, document |-> candidate]
    ELSE IF has.value /\ ~existing.failed
    THEN [raised |-> FALSE, fetched |-> FALSE, document |-> existing.document]
    ELSE [raised |-> content.raised, fetched |-> TRUE, document |-> content.document]

\* One list item of scrape_documents_from_index, from the Document built
\* for it to documents.append(document):
\*   raised   - an exception leaves the loop
\*   fetched  - fetch_document_content was called for the item
\*   document - the Document appended, when none was raised
ProcessCandidate(candidate, fetch, resume, file) ==
    Candidate(_document_has_content(resume, file), LoadExisting(candidate, file),
              fetch_document_content(candidate, fetch), candidate)

\* a slip: without the check of line 214, line 218 takes the first of no
\* language and raises IndexError, which leaves the loop
Continue_Raise(before) == [before EXCEPT !.raised = TRUE]

\* "if not languages: continue" and "if not document_id: continue": the
\* loop goes on with what it has collected
Continue(before) == before

\* VaticanDocumentsIndexScraper.scrape_documents_from_index by a scraper
\* built with the given resume, on the output directory fs: the Documents
\* of the items of the page, in order, up to the first item whose
\* processing raises (the try block encloses the whole loop, so an
\* exception ends the loop and the Documents collected so far are
\* returned), and the ids content was fetched for.
\*   page.fetched - the GET succeeded and the list container was found
\*   page.items   - the list items that have a heading; an item without a
\*                  language link (langs empty) or without an id (id empty)
\*                  is passed over
scrape_documents_from_index(page, pope_id, doc_type, resume, fs) ==
    LET item(i) ==
            ProcessCandidate(CandidateDocument(page.items[i], pope_id, doc_type),
                             page.items[i].fetch, resume,
                             fs[DocumentPath(page.items[i].id)])
        f[i \in 0..Len(page.items)] ==
            IF i = 0 THEN [documents |-> <<>>, fetches |-> <<>>, raised |-> FALSE]
            ELSE LET before == f[i - 1]
                     it == item(i)
                 IN  IF before.raised THEN before
                     ELSE IF page.items[i].langs = <<>> \/ page.items[i].id = ""
                     THEN Continue(before)
                     ELSE [ documents |-> IF it.raised THEN before.documents
                                          ELSE Append(before.documents, it.document),
                            fetches |-> IF it.fetched
                                        THEN Append(before.fetches, page.items[i].id)
                                        ELSE before.fetches,
                            raised |-> it.raised ]
    IN  IF page.fetched THEN f[Len(page.items)]
        ELSE [documents |-> <<>>, fetches |-> <<>>, raised |-> FALSE]

\* pope.documents[doc_type].append(summary), the list created when missing
AddSummaries(pope, doc_type, documents) ==
    LET at == IF \E i \in 1..Len(pope.documents) : pope.documents[i].type = doc_type
              THEN CHOOSE i \in 1..Len(pope.documents) : pope.documents[i].type = doc_type
              ELSE 0
        summaries == [j \in 1..Len(documents) |-> to_summary(documents[j])]
    IN  IF at = 0
        THEN [pope EXCEPT !.documents = Append(@, [type |-> doc_type, docs |-> summaries])]
        ELSE [pope EXCEPT !.documents[at].docs = @ \o summaries]

\* VaticanDocumentsIndexScraper.scrape_and_add_documents_to_pope: pages[i]
\* is the page served for the i-th index URL of the type.  Gives the pope
\* with the summaries added, the Documents of all the pages and the ids
\* content was fetched for.
scrape_and_add_documents_to_pope(pope, doc_type, pages, resume, fs) ==
    LET index == IndexOf(pope)
        n == IF HasKey(index, doc_type) THEN Len(Get(index, doc_type).l) ELSE 0
        f[i \in 0..n] ==
            IF i = 0 THEN [pope |-> pope, all_documents |-> <<>>, fetches |-> <<>>]
            ELSE LET before == f[i - 1]
                     r == scrape_documents_from_index(pages[i], pope.id, doc_type,
                                                      resume, fs)
                 IN  [ pope |-> AddSummaries(before.pope, doc_type, r.documents),
                       all_documents |-> before.all_documents \o r.documents,
                       fetches |-> before.fetches \o r.fetches ]
    IN  f[n]

(***************************************************************************)
(* The merge store on its own: one path, one value persisted again and     *)
(* again.                                                                  *)
(***************************************************************************)
VARIABLES
    mdata,   \* the value d handed to save_api_file
    mhist    \* the file at the path: before the first call, then after each call

mvars == <<mdata, mhist>>

\* The state of a run of the scraper and of the output directory
VARIABLES
    files,          \* the output directory: path -> file
    pc,             \* where run_scraper is
    popes,          \* what scrape_pope_list returned
    all_popes,      \* all_popes.values(), in insertion order
    all_documents,  \* all_documents.values(), in insertion order
    pi,             \* position of the loops over all_popes
    di,             \* position of the loop over all_documents
    runs,           \* runs started so far
    last,           \* how the latest run ended
    args,           \* the command line of the run: [resume |-> --resume given]
    fetched,        \* ids fetch_document_content was called for in the run
    stops           \* events from outside so far: runs stopped, writes refused

ovars == <<files, pc, popes, all_popes, all_documents, pi, di, runs, last,
           args, fetched, stops>>

\* An operation called on its own, outside a run
VARIABLE
    call            \* the operation, its inputs and, once it is done, its results

\* the variables a run of the scraper leaves alone
xvars == <<mvars, call>>

vars == <<mvars, ovars, call>>

PopeIds == {"p1", "p2"}

DocumentIds == {"d1", "d2"}

\* the entity files, and the view files that this many documents can make
EntityPaths == {PopesJson} \cup {PopePath(id) : id \in PopeIds}
                   \cup {DocumentPath(id) : id \in DocumentIds}

ViewPaths == {PostsIndexPath, PostsPagePath(1), FeedIndexPath}
                 \cup {FeedPath(id) : id \in PopeIds}

Paths == EntityPaths \cup ViewPaths

\* parse_arguments() on a command line without --resume
NoArgs == [resume |-> FALSE]

\* VaticanDocumentsIndexScraper(): resume takes its default
DefaultResume == FALSE

\* no run of the scraper under way, and none yet
Idle ==
    /\ pc = "idle"
    /\ popes = <<>>
    /\ all_popes = <<>>
    /\ all_documents = <<>>
    /\ pi = 1
    /\ di = 1
    /\ runs = 0
    /\ last = "none"
    /\ args = NoArgs
    /\ fetched = {}
    /\ stops = 0

\* no run of the scraper yet, on an empty output directory
NoRun ==
    /\ files = [p \in Paths |-> Absent]
    /\ Idle

\* no operation called on its own
NoCall == [op |-> "none"]

MaxLen == 2

MaxSaves == 2

\* sequences of length at most n over S
SeqsUpTo(S, n) == UNION {[1..k -> S] : k \in 0..n}

ItemA == Dict(<<"id", "v", "x">>, <<Num(1), Num(1), Dict(<<"la">>, <<Str("L")>>)>>)

ItemB == Dict(<<"id", "v", "x">>, <<Num(1), Num(2), Dict(<<"en">>, <<Str("E")>>)>>)

ItemC == Dict(<<"id">>, <<Num(2)>>)

\* ItemA with its keys in another order: equal to ItemA for Python
ItemR == Dict(<<"x", "v", "id">>, <<Dict(<<"la">>, <<Str("L")>>), Num(1), Num(1)>>)

Elems == {Num(1), Num(2), Num(3), ItemA, ItemB, ItemC, ItemR}

Lists == {List(xs) : xs \in SeqsUpTo(Elems, MaxLen)}

FieldValues ==
    { Num(1), JNull, Dict(<<"la">>, <<Str("L")>>), Dict(<<"en">>, <<Str("E")>>),
      List(<<Num(1)>>), List(<<ItemA>>) }

Dicts ==
    {EmptyDict}
        \cup {Dict(<<k>>, <<v>>) : k \in {"a", "b"}, v \in FieldValues}
        \cup {Dict(<<"a", "b">>, <<v, w>>) : v \in FieldValues, w \in FieldValues}
        \cup {Dict(<<"b", "a">>, <<v, w>>) : v \in FieldValues, w \in FieldValues}

Scalars == {JNull, Num(1), Str("E")}

\* a few values of every kind, for the pairs of unlike kinds
Mixed == Scalars \cup {EmptyDict, List(<<>>), List(<<ItemA, ItemB>>),
                       List(<<Num(1), Num(1)>>), Dict(<<"a">>, <<Num(1)>>)}

\* (the file before the first call, the value persisted)
MergeInputs ==
    ({json_dump(v, SaveIndent) : v \in Lists} \X Lists)
        \cup ({json_dump(v, SaveIndent) : v \in Dicts} \X Dicts)
        \cup ({json_dump(v, SaveIndent) : v \in Mixed} \X Mixed)
        \cup ({Absent, Garbage, BadBytes} \X (Mixed \cup Lists))

MInit ==
    \E in \in MergeInputs :
        /\ mhist = <<[file |-> in[1], raised |-> FALSE]>>
        /\ mdata = in[2]
        /\ NoRun
        /\ call = NoCall

\* save_api_file(path, mdata)
MSave ==
    /\ Len(mhist) <= MaxSaves
    /\ mhist' = Append(mhist, save_api_file(mhist[Len(mhist)].file, mdata))
    /\ UNCHANGED <<mdata, ovars, call>>

MNext == MSave

MergeSpec == MInit /\ [][MNext]_vars

(***************************************************************************)
(* run_scraper, run again and again on one output directory.  What the     *)
(* remote site serves is chosen anew at every fetch.                       *)
(***************************************************************************)
MaxRuns == 2

MaxStops == 1

\* the profile links of the list page; none when the page cannot be
\* fetched or its table is not found; the page may link an author twice
LinkLists == {<<>>, <<"p1">>, <<"p1", "p2">>, <<"p1", "p2", "p1">>}

FailedDetail == [fetched |-> FALSE, latin |-> JNull, birth |-> JNull,
                 start |-> JNull, end |-> JNull]

FullDetail == [fetched |-> TRUE, latin |-> Str("latin"), birth |-> Str("birth"),
               start |-> Str("1978-10-16"), end |-> JNull]

\* the detail page served for an author
DetailPages(pope_id) ==
    IF pope_id = "p1" THEN {FailedDetail, FullDetail} ELSE {FullDetail}

\* the usable links of the accordion menu of an author page
Sidebars(pope_id) ==
    IF pope_id = "p1"
    THEN { <<>>,
           <<[doc_type |-> "encyclicals", url |-> "u1"]>>,
           <<[doc_type |-> "letters", url |-> "u3"],
             [doc_type |-> "encyclicals", url |-> "u1"],
             [doc_type |-> "encyclicals", url |-> "u2"]>> }
    ELSE { <<>> }

Item(id, langs, raises, content) ==
    [ id |-> id, date |-> Str("2003-04-17"), title |-> "title", langs |-> langs,
      fetch |-> [raises |-> raises, content |-> content] ]

\* d1 in two languages, content fetched for both
ItemFull == Item("d1", <<"en", "la">>, FALSE, <<"en", "la">>)

\* d1 in one language, no content fetched
ItemBare == Item("d1", <<"en">>, FALSE, <<>>)

\* d1, the content fetch raises
ItemRaise == Item("d1", <<"en">>, TRUE, <<>>)

ItemOther == Item("d2", <<"en">>, FALSE, <<"en">>)

\* a list item without a usable language link: no URL to take an id from
ItemNoLinks == Item("", <<>>, FALSE, <<>>)

FailedPage == [fetched |-> FALSE, items |-> <<>>]

\* what the index URL at position i of a type serves
IndexPages(i) ==
    IF i = 1
    THEN { FailedPage,
           [fetched |-> TRUE, items |-> <<ItemFull>>],
           [fetched |-> TRUE, items |-> <<ItemBare>>],
           [fetched |-> TRUE, items |-> <<ItemOther, ItemRaise, ItemFull>>] }
    ELSE { FailedPage,
           [fetched |-> TRUE, items |-> <<ItemFull>>] }

\* document_types of run_scraper
document_types == <<"encyclicals">>

\* if not popes
NoPopesFound_Never(found) == FALSE

NoPopesFound(found) == found = <<>>

\* a slip: the popes are kept as a list, one element for each link
CollectById_Append(objs, new) == objs \o new

\* all_popes[pope.id] = pope for every pope of the list
CollectById(objs, new) ==
    LET f[i \in 0..Len(new)] ==
            IF i = 0 THEN objs ELSE AssignById(f[i - 1], new[i])
    IN  f[Len(new)]

Init ==
    /\ NoRun
    /\ mdata = JNull
    /\ mhist = <<>>
    /\ call = NoCall

\* run_scraper returns or raises: its locals are gone
EndRun(how) ==
    /\ pc' = "idle"
    /\ last' = how
    /\ popes' = <<>>
    /\ all_popes' = <<>>
    /\ all_documents' = <<>>
    /\ pi' = 1
    /\ di' = 1
    /\ args' = NoArgs
    /\ fetched' = {}

\* the stage after "Add to collection" and after the loop over the
\* authors: each loop of run_scraper that has nothing to go over is passed
StageAfter(stage, authors, documents) ==
    IF stage = "check" /\ authors # <<>> THEN "authors"
    ELSE IF documents # <<>> THEN "save_docs"
    ELSE IF authors # <<>> THEN "save_popes"
    ELSE "save_list"

\* Step 1 of run_scraper: scrape_pope_list()
ScrapePopeList ==
    /\ pc = "idle"
    /\ runs < MaxRuns
    /\ \E links \in LinkLists :
       \E details \in {d \in [1..Len(links) -> {FailedDetail, FullDetail}] :
                             \A i \in 1..Len(links) : d[i] \in DetailPages(links[i])} :
           popes' = scrape_pope_list(links, details)
    /\ \E resume \in BOOLEAN : args' = [resume |-> resume]
    /\ pc' = "check"
    /\ runs' = runs + 1
    /\ last' = "running"
    /\ UNCHANGED <<files, all_popes, all_documents, pi, di, fetched, stops, xvars>>

\* "if not popes: return", else the popes are collected by id
CheckPopes ==
    /\ pc = "check"
    /\ IF NoPopesFound(popes)
       THEN EndRun("no_popes")
       ELSE LET collected == CollectById(<<>>, popes)
            IN  /\ all_popes' = collected
                /\ pc' = StageAfter("check", collected, <<>>)
                /\ UNCHANGED <<popes, all_documents, pi, di, last, args, fetched>>
    /\ UNCHANGED <<files, runs, stops, xvars>>

\* Step 2 of run_scraper, one turn of the loop over all_popes
ProcessPope ==
    /\ pc = "authors"
    /\ \E sidebar \in Sidebars(all_popes[pi].id) :
       \E pages \in {pg \in [1..2 -> IndexPages(1)] :
                           \A i \in 1..2 : pg[i] \in IndexPages(i)} :
           LET pope == update_pope_documents_index(all_popes[pi], sidebar)
               doc_type == document_types[1]
               r == IF HasKey(IndexOf(pope), doc_type)
                    THEN scrape_and_add_documents_to_pope(pope, doc_type, pages,
                                                          DefaultResume, files)
                    ELSE [pope |-> pope, all_documents |-> <<>>, fetches |-> <<>>]
               documents == CollectById(all_documents, r.all_documents)
           IN  /\ all_popes' = [all_popes EXCEPT ![pi] = r.pope]
               /\ all_documents' = documents
               /\ fetched' = fetched \cup {r.fetches[i] : i \in 1..Len(r.fetches)}
               /\ IF pi < Len(all_popes)
                  THEN /\ pi' = pi + 1
                       /\ pc' = "authors"
                  ELSE /\ pi' = 1
                       /\ pc' = StageAfter("authors", all_popes, documents)
    /\ UNCHANGED <<files, popes, di, runs, last, args, stops, xvars>>

\* what run_scraper does after a call of save_api_file that left r: the
\* loop goes on (advance) up to the end of run_scraper; an exception of the
\* call is not caught in run_scraper, main logs it and raises it again
Saved(r, path, next_pc, advance) ==
    /\ files' = [files EXCEPT ![path] = r.file]
    /\ IF r.raised THEN EndRun("raised")
       ELSE IF next_pc = "idle" THEN EndRun("completed")
       ELSE /\ pc' = next_pc
            /\ advance
            /\ UNCHANGED <<popes, all_popes, all_documents, last, args, fetched>>
    /\ UNCHANGED <<runs, xvars>>

\* a call of save_api_file by run_scraper: the file is merged and written,
\* or the path cannot be opened (OSError, which is IOError): save_api_file
\* catches it, prints it and returns, and the file is as it was
Save(path, data, next_pc, advance) ==
    \/ /\ Saved(save_api_file(files[path], data), path, next_pc, advance)
       /\ UNCHANGED stops
    \/ /\ stops < MaxStops
       /\ stops' = stops + 1
       /\ Saved([file |-> files[path], raised |-> FALSE], path, next_pc, advance)

\* Step 3, "Save individual documents", one turn of the loop
SaveDocument ==
    /\ pc = "save_docs"
    /\ Save(DocumentPath(all_documents[di].id), Document_to_dict(all_documents[di]),
            IF di < Len(all_documents) THEN "save_docs" ELSE "save_popes",
            di' = di + 1 /\ pi' = pi)

\* Step 3, "Save individual popes", one turn of the loop
SavePope ==
    /\ pc = "save_popes"
    /\ Save(PopePath(all_popes[pi].id), Pope_to_dict(all_popes[pi]),
            IF pi < Len(all_popes) THEN "save_popes" ELSE "save_list",
            pi' = pi + 1 /\ di' = di)

\* Step 3, "Save aggregated popes list"
SaveList ==
    /\ pc = "save_list"
    /\ Save(PopesJson,
            List([i \in 1..Len(all_popes) |-> Pope_to_dict(all_popes[i])]),
            "idle", TRUE)

\* the path run_scraper writes next
NextPath ==
    CASE pc = "save_docs" -> DocumentPath(all_documents[di].id)
      [] pc = "save_popes" -> PopePath(all_popes[pi].id)
      [] OTHER -> PopesJson

\* what a write that does not finish leaves at the path, which open(.., "w")
\* has truncated: a part of the JSON text, cut between two characters or,
\* the text being written as UTF-8 with ensure_ascii=False, inside one
PartialWrites == {Garbage, BadBytes}

\* The run is stopped from outside (KeyboardInterrupt, or the process is
\* killed): between two steps, or in the middle of the write of a save
Stop ==
    /\ pc # "idle"
    /\ stops < MaxStops
    /\ \/ UNCHANGED files
       \/ /\ pc \in {"save_docs", "save_popes", "save_list"}
          /\ \E partial \in PartialWrites :
                 files' = [files EXCEPT ![NextPath] = partial]
    /\ EndRun("interrupted")
    /\ stops' = stops + 1
    /\ UNCHANGED <<runs, xvars>>

Next ==
    \/ ScrapePopeList
    \/ CheckPopes
    \/ ProcessPope
    \/ SaveDocument
    \/ SavePope
    \/ SaveList
    \/ Stop

Spec == Init /\ [][Next]_vars

(***************************************************************************)
(* scrape_documents_from_index called on its own, by a scraper built with  *)
(* resume on or off, on an output directory that earlier runs have left.   *)
(***************************************************************************)
MaxItems == 2

\* a persisted Document with the given raw content per language; it was
\* listed with one language link at least
PersistedDocument(id, langs, contents) ==
    json_dump(Dict(<<"id", "pope_id", "type", "date", "title", "excerpt", "metadata">>,
                   <<Str(id), Str("p1"), Str("encyclicals"), Str("2003-04-17"),
                     Str("title"), LangMap(langs, "old excerpt"),
                     Dict(<<"vatican_urls", "raw_html">>,
                          <<LangMap(IF langs = <<>> THEN <<"en">> ELSE langs, "url"),
                            Dict(langs, [i \in 1..Len(langs) |-> Str(contents[i])])>>)>>),
              SaveIndent)

\* a file that decodes as JSON but holds no Document record
WrongShape == json_dump(List(<<>>), SaveIndent)

\* what earlier runs may have left at documents/d1.json
PersistedD1 ==
    { Absent, Garbage, BadBytes, WrongShape,
      PersistedDocument("d1", <<>>, <<>>),
      PersistedDocument("d1", <<"en">>, <<"old html">>),
      PersistedDocument("d1", <<"en">>, <<" ">>),
      PersistedDocument("d1", <<"en", "la">>, <<"", "old html">>) }

PersistedD2 == {Absent, PersistedDocument("d2", <<"en">>, <<"old html">>)}

\* the index pages: not fetched, or listing up to MaxItems documents
ListedPages ==
    {FailedPage} \cup
    { [fetched |-> TRUE, items |-> items] :
          items \in SeqsUpTo({ItemFull, ItemBare, ItemRaise, ItemOther, ItemNoLinks},
                              MaxItems) }

\* Step 3 of run_scraper, "Save individual documents", for the documents
\* given: the output directory after the loop, or after the call of
\* save_api_file that raised
SaveDocuments(fs, documents) ==
    LET f[i \in 0..Len(documents)] ==
            IF i = 0 THEN [files |-> fs, raised |-> FALSE]
            ELSE LET before == f[i - 1]
                     path == DocumentPath(documents[i].id)
                     r == save_api_file(before.files[path],
                                        Document_to_dict(documents[i]))
                 IN  IF before.raised THEN before
                     ELSE [files |-> [before.files EXCEPT ![path] = r.file],
                           raised |-> r.raised]
    IN  f[Len(documents)]

IInit ==
    /\ \E d1 \in PersistedD1, d2 \in PersistedD2 :
           files = [p \in Paths |->
                       IF p = DocumentPath("d1") THEN d1
                       ELSE IF p = DocumentPath("d2") THEN d2 ELSE Absent]
    /\ \E resume \in BOOLEAN, page \in ListedPages :
           call = [op |-> "scrape_documents_from_index", resume |-> resume,
                   page |-> page, done |-> FALSE, documents |-> <<>>,
                   fetches |-> <<>>, saved |-> FALSE, after |-> <<>>]
    /\ Idle
    /\ mdata = JNull
    /\ mhist = <<>>

\* scrape_documents_from_index(url of call.page, "p1", "encyclicals")
ScrapeIndex ==
    /\ ~call.done
    /\ LET r == scrape_documents_from_index(call.page, "p1", "encyclicals",
                                            call.resume, files)
       IN  call' = [call EXCEPT !.done = TRUE, !.documents = r.documents,
                                !.fetches = r.fetches]
    /\ UNCHANGED <<mvars, ovars>>

\* the caller collects the Documents returned by id and persists them, as
\* run_scraper does; call.after is the output directory then
PersistReturned ==
    /\ call.done /\ ~call.saved
    /\ call' = [call EXCEPT
                   !.saved = TRUE,
                   !.after = SaveDocuments(files, CollectById(<<>>, call.documents)).files]
    /\ UNCHANGED <<mvars, ovars>>

INext == ScrapeIndex \/ PersistReturned

IndexSpec == IInit /\ [][INext]_vars

(***************************************************************************)
(* The paginated listing, create_paginated_posts_api, on the documents and *)
(* the author list loaded from the output directory.  A date is the text   *)
(* persisted in the "date" field.                                          *)
(***************************************************************************)
MaxPosts == 102

\* the dates met in persisted documents: canonical ones, raw strings that
\* the normalizer did not recognize and kept, and the empty string
DateTexts == <<"2015-05-24", "2003-04-17", "2003-4-7", "0001-01-01", "",
               "Easter 2003">>

\* datetime.strptime(text, '%Y-%m-%d') on the texts above: the directives
\* %m and %d take one or two digits, %Y takes four; anything else raises
\* ValueError
strptime(text) ==
    CASE text = "2015-05-24" -> [ok |-> TRUE, y |-> 2015, m |-> 5, d |-> 24]
      [] text = "2003-04-17" -> [ok |-> TRUE, y |-> 2003, m |-> 4, d |-> 17]
      [] text = "2003-4-7"   -> [ok |-> TRUE, y |-> 2003, m |-> 4, d |-> 7]
      [] text = "0001-01-01" -> [ok |-> TRUE, y |-> 1, m |-> 1, d |-> 1]
      [] OTHER -> [ok |-> FALSE, y |-> 0, m |-> 0, d |-> 0]

\* a datetime at midnight as a number that orders as datetimes do
Ordinal(y, m, d) == y * 10000 + m * 100 + d

\* datetime.min
datetime_min == Ordinal(1, 1, 1)

parse_date_Min(date_str) == datetime_min

\* parse_date of posts_generator.py
parse_date(date_str) ==
    LET r == strptime(date_str)
    IN  IF r.ok THEN Ordinal(r.y, r.m, r.d) ELSE datetime_min

\* xs.sort(key=..., reverse=True): the sort is stable, and with reverse the
\* elements of equal key keep their order too; key(x) is a number
SortDescending(xs, key(_)) ==
    LET keys == {key(xs[i]) : i \in 1..Len(xs)}
        f[ks \in SUBSET keys] ==
            IF ks = {} THEN <<>>
            ELSE LET top == CHOOSE k \in ks : \A other \in ks : other <= k
                 IN  SelectSeq(xs, LAMBDA x : key(x) = top) \o f[ks \ {top}]
    IN  f[keys]

\* posts_per_page
posts_per_page == 50

\* get_pope_display_name: the English name of the author list, else the id
get_pope_display_name(pope_id, popes_data) ==
    IF pope_id \in DOMAIN popes_data THEN popes_data[pope_id] ELSE pope_id

\* create_post_from_document: the author, and of the document the fields
\* that depend on more than the field of the same name
create_post_from_document(doc, popes_data) ==
    [ id |-> doc.id,
      pope |-> [id |-> doc.pope_id,
                name |-> get_pope_display_name(doc.pope_id, popes_data)],
      document |-> [date |-> doc.date, language_count |-> doc.languages,
                    pdf_available |-> doc.languages > 0] ]

\* posts[start_idx:end_idx]
Slice(xs, start_idx, end_idx) ==
    [i \in 1..(end_idx - start_idx) |-> xs[start_idx + i]]

ceil_div_Floor(a, b) == a \div b

\* math.ceil(a / b) for a >= 0 and b > 0
ceil_div(a, b) == (a + b - 1) \div b

\* a slip: the last page still announces a next page
PageData_NextOnLast(posts, page_num, total_pages) ==
    LET start_idx == (page_num - 1) * posts_per_page
        end_idx == IF start_idx + posts_per_page < Len(posts)
                   THEN start_idx + posts_per_page ELSE Len(posts)
    IN  [ meta |-> [ page |-> page_num,
                     per_page |-> posts_per_page,
                     total_pages |-> total_pages,
                     total_posts |-> Len(posts),
                     has_next |-> page_num <= total_pages,
                     has_prev |-> page_num > 1,
                     next_page |-> IF page_num <= total_pages THEN page_num + 1 ELSE 0,
                     prev_page |-> IF page_num > 1 THEN page_num - 1 ELSE 0 ],
          posts |-> Slice(posts, start_idx, end_idx) ]

\* page_data of page page_num
PageData(posts, page_num, total_pages) ==
    LET start_idx == (page_num - 1) * posts_per_page
        end_idx == IF start_idx + posts_per_page < Len(posts)
                   THEN start_idx + posts_per_page ELSE Len(posts)
    IN  [ meta |-> [ page |-> page_num,
                     per_page |-> posts_per_page,
                     total_pages |-> total_pages,
                     total_posts |-> Len(posts),
                     has_next |-> page_num < total_pages,
                     has_prev |-> page_num > 1,
                     \* 0 stands for None
                     next_page |-> IF page_num < total_pages THEN page_num + 1 ELSE 0,
                     prev_page |-> IF page_num > 1 THEN page_num - 1 ELSE 0 ],
          posts |-> Slice(posts, start_idx, end_idx) ]

\* create_paginated_posts_api on the documents loaded, in the order the
\* directory listing gave them: the page files written (pages[n] is
\* page={n}.json) and index.json
create_paginated_posts_api(documents, popes_data) ==
    LET sorted == SortDescending(documents, LAMBDA x : parse_date(x.date))
        posts == [i \in 1..Len(sorted) |->
                     create_post_from_document(sorted[i], popes_data)]
        total_pages == ceil_div(Len(posts), posts_per_page)
    IN  [ pages |-> [n \in 1..total_pages |-> PageData(posts, n, total_pages)],
          index |-> [meta |-> [ total_pages |-> total_pages,
                                total_posts |-> Len(posts),
                                posts_per_page |-> posts_per_page,
                                latest_page |-> 1 ]] ]

MaxShort == 3

\* a persisted Document as load_all_documents gives it, with the number of
\* its language URLs; every other document is of an author not in popes.json
LoadedDocument(i, date) ==
    [ id |-> i, pope_id |-> IF i % 2 = 0 THEN "p1" ELSE "unknown", date |-> date,
      languages |-> i % 3 ]

\* the documents loaded: a few with any dates in any order, or many with
\* the dates taken in turn from DateTexts, starting anywhere
LoadedLists ==
    { [i \in 1..Len(dates) |-> LoadedDocument(i, dates[i])] :
          dates \in SeqsUpTo({DateTexts[k] : k \in 1..Len(DateTexts)}, MaxShort) }
    \cup
    { [i \in 1..n |-> LoadedDocument(i, DateTexts[((i + k) % Len(DateTexts)) + 1])] :
          n \in (MaxShort + 1)..MaxPosts, k \in 1..Len(DateTexts) }

\* load_popes_data: id -> English name
LoadedPopes == [p \in {"p1"} |-> "name"]

PInit ==
    /\ \E documents \in LoadedLists :
           call = [op |-> "create_paginated_posts_api", documents |-> documents,
                   done |-> FALSE, pages |-> <<>>, index |-> <<>>]
    /\ NoRun
    /\ mdata = JNull
    /\ mhist = <<>>

CreatePosts ==
    /\ ~call.done
    /\ LET r == create_paginated_posts_api(call.documents, LoadedPopes)
       IN  call' = [call EXCEPT !.done = TRUE, !.pages = r.pages, !.index = r.index]
    /\ UNCHANGED <<mvars, ovars>>

PNext == CreatePosts

PostsSpec == PInit /\ [][PNext]_vars

(***************************************************************************)
(* The date normalizers parse_document_date and parse_vatican_date.  A     *)
(* text is the sequence of its characters.  The texts met here are made of *)
(* ASCII letters, digits, the space, the full stop, the comma and the      *)
(* plus sign.                                                              *)
(***************************************************************************)
Digits == <<"0", "1", "2", "3", "4", "5", "6", "7", "8", "9">>

UpperLetters == <<"A", "B", "C", "D", "E", "F", "G", "H", "I", "J", "K", "L", "M", "N",
                  "O", "P", "Q", "R", "S", "T", "U", "V", "W", "X", "Y", "Z">>

LowerLetters == <<"a", "b", "c", "d", "e", "f", "g", "h", "i", "j", "k", "l", "m", "n",
                  "o", "p", "q", "r", "s", "t", "u", "v", "w", "x", "y", "z">>

\* the place of c in xs, 0 when it is not there
PlaceIn(xs, c) == IF \E i \in 1..Len(xs) : xs[i] = c
                  THEN CHOOSE i \in 1..Len(xs) : xs[i] = c
                  ELSE 0

IsDigit(c) == PlaceIn(Digits, c) > 0

IsSpace(c) == c = " "

\* the class \w of re
IsWord(c) ==
    \/ IsDigit(c)
    \/ PlaceIn(UpperLetters, c) > 0
    \/ PlaceIn(LowerLetters, c) > 0
    \/ c = "_"

\* str.lower and str.upper
lower(text) ==
    [i \in 1..Len(text) |->
        LET k == PlaceIn(UpperLetters, text[i])
        IN  IF k > 0 THEN LowerLetters[k] ELSE text[i]]

upper(text) ==
    [i \in 1..Len(text) |->
        LET k == PlaceIn(LowerLetters, text[i])
        IN  IF k > 0 THEN UpperLetters[k] ELSE text[i]]

\* str.replace for one character
replace(text, old, new) ==
    [i \in 1..Len(text) |-> IF text[i] = old THEN new ELSE text[i]]

\* str.split(): the maximal runs without whitespace
RECURSIVE SplitFrom(_, _, _, _)
SplitFrom(text, i, word, parts) ==
    IF i > Len(text)
    THEN IF word = <<>> THEN parts ELSE Append(parts, word)
    ELSE IF IsSpace(text[i])
         THEN SplitFrom(text, i + 1, <<>>,
                        IF word = <<>> THEN parts ELSE Append(parts, word))
         ELSE SplitFrom(text, i + 1, Append(word, text[i]), parts)

split(text) == SplitFrom(text, 1, <<>>, <<>>)

AllDigits(text) == \A i \in 1..Len(text) : IsDigit(text[i])

AllWord(text) == \A i \in 1..Len(text) : IsWord(text[i])

\* the value of a numeral of at most nine digits
RECURSIVE ValueOf(_)
ValueOf(digits) ==
    IF digits = <<>> THEN 0
    ELSE 10 * ValueOf(SubSeq(digits, 1, Len(digits) - 1))
         + PlaceIn(Digits, digits[Len(digits)]) - 1

RECURSIVE DropZeros(_)
DropZeros(digits) ==
    IF digits # <<>> /\ digits[1] = "0" THEN DropZeros(Tail(digits)) ELSE digits

\* the largest value of a C int, 2^31 - 1, as a numeral
CIntMax == <<"2", "1", "4", "7", "4", "8", "3", "6", "4", "7">>

\* whether numeral a, without leading zeros, is greater than numeral b
RECURSIVE Greater(_, _)
Greater(a, b) ==
    IF Len(a) # Len(b) THEN Len(a) > Len(b)
    ELSE IF a = <<>> THEN FALSE
    ELSE IF a[1] # b[1] THEN PlaceIn(Digits, a[1]) > PlaceIn(Digits, b[1])
    ELSE Greater(Tail(a), Tail(b))

\* int(text) for a text without whitespace and underscore: an optional sign
\* and decimal digits, ValueError (ok = FALSE) otherwise.  big tells that
\* the value does not fit a C int, and then v is not computed.
int(text) ==
    LET signed == text # <<>> /\ text[1] \in {"+", "-"}
        digits == IF signed THEN Tail(text) ELSE text
        short  == DropZeros(digits)
        big    == Greater(short, CIntMax)
    IN  IF digits = <<>> \/ ~AllDigits(digits)
        THEN [ok |-> FALSE, big |-> FALSE, v |-> 0]
        ELSE [ok |-> TRUE, big |-> big,
              v |-> IF big THEN 0
                    ELSE IF signed /\ text[1] = "-" THEN 0 - ValueOf(short)
                    ELSE ValueOf(short)]

IsLeap(y) == y % 4 = 0 /\ (y % 100 # 0 \/ y % 400 = 0)

DaysInMonth(y, m) ==
    IF m = 2 THEN (IF IsLeap(y) THEN 29 ELSE 28)
    ELSE IF m \in {4, 6, 9, 11} THEN 30 ELSE 31

\* datetime(year, month, day): "OverflowError" when an argument does not fit
\* a C int, "ValueError" when it is no date of the years 1..9999
datetime(year, month, day) ==
    IF year.big \/ day.big THEN "OverflowError"
    ELSE IF /\ year.v \in 1..9999
            /\ month \in 1..12
            /\ day.v \in 1..DaysInMonth(year.v, month)
         THEN "ok"
         ELSE "ValueError"

\* the decimal numeral of n, at least width digits long
RECURSIVE Numeral(_, _)
Numeral(n, width) ==
    IF n < 10 /\ width <= 1 THEN <<Digits[n + 1]>>
    ELSE Append(Numeral(n \div 10, width - 1), Digits[(n % 10) + 1])

\* strftime("%Y-%m-%d"): the C library decides whether %Y pads the year to
\* four digits (glibc does not)
strftime(y, m, d, zero_pad) ==
    Numeral(y, IF zero_pad THEN 4 ELSE 1) \o <<"-">> \o Numeral(m, 2)
        \o <<"-">> \o Numeral(d, 2)

ReturnNone == [raised |-> "none", none |-> TRUE, text |-> <<>>]

\* the try block of both normalizers: the integers, the datetime and its
\* format; except ValueError: pass
TryFormat(year_text, month, day_text, zero_pad) ==
    LET year == int(year_text)
        day  == int(day_text)
        made == IF year.ok /\ day.ok THEN datetime(year, month, day)
                ELSE "ValueError"
    IN  CASE made = "ok" ->
                 [raised |-> "none", none |-> FALSE,
                  text |-> strftime(year.v, month, day.v, zero_pad)]
          [] made = "ValueError" -> ReturnNone
          [] OTHER -> [raised |-> made, none |-> FALSE, text |-> <<>>]

\* month_names of parse_document_date
month_names ==
    << <<"j", "a", "n", "u", "a", "r", "y">>,
       <<"f", "e", "b", "r", "u", "a", "r", "y">>,
       <<"m", "a", "r", "c", "h">>,
       <<"a", "p", "r", "i", "l">>,
       <<"m", "a", "y">>,
       <<"j", "u", "n", "e">>,
       <<"j", "u", "l", "y">>,
       <<"a", "u", "g", "u", "s", "t">>,
       <<"s", "e", "p", "t", "e", "m", "b", "e", "r">>,
       <<"o", "c", "t", "o", "b", "e", "r">>,
       <<"n", "o", "v", "e", "m", "b", "e", "r">>,
       <<"d", "e", "c", "e", "m", "b", "e", "r">> >>

\* roman_to_int of parse_vatican_date
roman_to_int ==
    << <<"I">>,
       <<"I", "I">>,
       <<"I", "I", "I">>,
       <<"I", "V">>,
       <<"V">>,
       <<"V", "I">>,
       <<"V", "I", "I">>,
       <<"V", "I", "I", "I">>,
       <<"I", "X">>,
       <<"X">>,
       <<"X", "I">>,
       <<"X", "I", "I">> >>

\* parse_vatican_date
parse_vatican_date(date_str, zero_pad) ==
    LET parts == split(replace(date_str, ".", " "))
    IN  IF date_str = <<>> \/ Len(parts) # 3 THEN ReturnNone
        ELSE LET month == PlaceIn(roman_to_int, upper(parts[2]))
             IN  IF month = 0 THEN ReturnNone
                 ELSE TryFormat(parts[3], month, parts[1], zero_pad)

\* a numeral of lo..hi digits, the group (\d{lo,hi})
IsNumeral(text, lo, hi) == Len(text) \in lo..hi /\ AllDigits(text)

\* the group (\d{1,2}),? at the end of a run
WithoutComma(text) ==
    IF text # <<>> /\ text[Len(text)] = ","
    THEN SubSeq(text, 1, Len(text) - 1)
    ELSE text

\* one pattern of parse_document_date on the runs of the stripped text: the
\* groups hold no whitespace and are separated by \s+, so the pattern
\* matches exactly when there are three runs of the right classes
TryPattern(day_text, month_name, year_text, matched, zero_pad) ==
    LET month == PlaceIn(month_names, lower(month_name))
    IN  IF matched /\ month > 0
        THEN TryFormat(year_text, month, day_text, zero_pad)
        ELSE ReturnNone

\* parse_document_date
parse_document_date(date_str, zero_pad) ==
    LET parts == split(lower(date_str))
        three == Len(parts) = 3
        p1 == IF three THEN parts[1] ELSE <<>>
        p2 == IF three THEN parts[2] ELSE <<>>
        p3 == IF three THEN parts[3] ELSE <<>>
        day2 == WithoutComma(p2)
        first  == TryPattern(p1, p2, p3,
                             three /\ IsNumeral(p1, 1, 2) /\ p2 # <<>> /\ AllWord(p2)
                                 /\ IsNumeral(p3, 4, 4), zero_pad)
        second == TryPattern(day2, p1, p3,
                             three /\ p1 # <<>> /\ AllWord(p1) /\ IsNumeral(day2, 1, 2)
                                 /\ IsNumeral(p3, 4, 4), zero_pad)
        third  == TryPattern(day2, p1, p3,
                             three /\ p1 # <<>> /\ AllWord(p1) /\ IsNumeral(day2, 1, 2)
                                 /\ day2 # p2 /\ IsNumeral(p3, 4, 4), zero_pad)
    IN  IF date_str = <<>> THEN ReturnNone
        ELSE IF ~first.none THEN first
        ELSE IF ~second.none THEN second
        ELSE third

\* the parts of a date text and the ways to join them
VaticanDays == { <<"2", "8">>,
               <<"8">>,
               <<"2", "9">>,
               <<"3", "0">>,
               <<"3", "1">>,
               <<"0">>,
               <<"+", "2", "8">>,
               <<"9", "9", "9", "9", "9", "9", "9", "9", "9", "9", "9">> }

VaticanMonths == { <<"I", "I">>,
                 <<"i", "i">>,
                 <<"I", "V">>,
                 <<"X", "I", "I">>,
                 <<"X", "I", "I", "I">>,
                 <<"2">> }

VaticanYears == { <<"2", "0", "1", "3">>,
                <<"2", "0", "1", "2">>,
                <<"1", "3">>,
                <<"0">>,
                <<"1", "0", "0", "0", "0">>,
                <<"2", "1", "4", "7", "4", "8", "3", "6", "4", "8">>,
                <<"M", "M", "X", "I", "I", "I">> }

VaticanJoints == { <<".">>, <<" ">>, <<".", ".">> }

\* the texts handed to parse_vatican_date: the birth and reign dates of the
\* author pages
VaticanTexts ==
    { d \o j \o m \o j \o y : d \in VaticanDays, j \in VaticanJoints,
                              m \in VaticanMonths, y \in VaticanYears }
    \cup { <<>>, <<"2", "8", ".", "I", "I">>, <<"2", "8", ".", "I", "I", ".", "2", "0", "1", "3", ".">> }

DocumentDays == { <<"1", "7">>,
                <<"7">>,
                <<"3", "1">>,
                <<"2", "9">>,
                <<"0", "0", "7">> }

DocumentMonths == { <<"A", "p", "r", "i", "l">>,
                  <<"A", "P", "R", "I", "L">>,
                  <<"f", "e", "b", "r", "u", "a", "r", "y">>,
                  <<"A", "v", "r", "i", "l">>,
                  <<"D", "e", "c", "e", "m", "b", "e", "r">> }

DocumentYears == { <<"2", "0", "0", "3">>,
                 <<"2", "0", "0", "4">>,
                 <<"0", "9", "9", "9">>,
                 <<"0", "0", "0", "0">>,
                 <<"9", "9", "9">> }

DocumentJoints == { <<" ">>, <<" ", " ">> }

\* the texts handed to parse_document_date: what stands in the parentheses
\* at the end of a listed title
DocumentTexts ==
    { d \o j \o m \o j \o y : d \in DocumentDays, j \in DocumentJoints,
                              m \in DocumentMonths, y \in DocumentYears }
    \cup { m \o j \o d \o c \o y : m \in DocumentMonths, j \in DocumentJoints,
                                   d \in DocumentDays, c \in {<<" ">>, <<",", " ">>, <<" ", ",", " ">>},
                                   y \in DocumentYears }
    \cup { <<>>, <<" ", "1", "7", " ", "A", "p", "r", "i", "l", " ", "2", "0", "0", "3", " ">>, <<"E", "a", "s", "t", "e", "r", " ", "2", "0", "0", "3">> }

DInit ==
    /\ \E zero_pad \in BOOLEAN :
           \/ \E date_str \in VaticanTexts :
                  call = [op |-> "parse_vatican_date", date_str |-> date_str,
                          zero_pad |-> zero_pad, done |-> FALSE, r |-> ReturnNone]
           \/ \E date_str \in DocumentTexts :
                  call = [op |-> "parse_document_date", date_str |-> date_str,
                          zero_pad |-> zero_pad, done |-> FALSE, r |-> ReturnNone]
    /\ NoRun
    /\ mdata = JNull
    /\ mhist = <<>>

ParseVaticanDate ==
    /\ call.op = "parse_vatican_date"
    /\ ~call.done
    /\ call' = [call EXCEPT !.done = TRUE,
                            !.r = parse_vatican_date(call.date_str, call.zero_pad)]
    /\ UNCHANGED <<mvars, ovars>>

ParseDocumentDate ==
    /\ call.op = "parse_document_date"
    /\ ~call.done
    /\ call' = [call EXCEPT !.done = TRUE,
                            !.r = parse_document_date(call.date_str, call.zero_pad)]
    /\ UNCHANGED <<mvars, ovars>>

DNext == ParseVaticanDate \/ ParseDocumentDate

DateSpec == DInit /\ [][DNext]_vars

(***************************************************************************)
(* The author feeds and the resort of the author list,                     *)
(* pope_feeds_generator.py, on the JSON values loaded from popes.json and  *)
(* documents/*.json.                                                       *)
(***************************************************************************)

\* load_popes_data: popes_dict[pope['id']] = pope over the list, kept as the
\* sequence of the values of popes_dict
load_popes_data(popes_list) == destination_map(popes_list)

\* the keys of a grouping, in the order of their first document
GroupKeys(documents, key(_)) ==
    LET f[i \in 0..Len(documents)] ==
            IF i = 0 THEN <<>>
            ELSE LET before == f[i - 1]
                     k == key(documents[i])
                 IN  IF \E j \in 1..Len(before) : before[j] = k
                     THEN before ELSE Append(before, k)
    IN  f[Len(documents)]

\* defaultdict(list) filled in document order, as the sequence of its items
GroupBy(documents, key(_)) ==
    LET keys == GroupKeys(documents, key)
    IN  [k \in 1..Len(keys) |->
            [key |-> keys[k],
             docs |-> SelectSeq(documents, LAMBDA d : key(d) = keys[k])]]

\* group_documents_by_pope
group_documents_by_pope(documents) ==
    GroupBy(documents, LAMBDA d : GetOr(d, "pope_id", Str("unknown")))

\* group_documents_by_type
group_documents_by_type(documents) ==
    GroupBy(documents, LAMBDA d : GetOr(d, "type", Str("unknown")))

\* parse_date(x.get(field, '')): strptime raises TypeError on a value that
\* is no string
DateRaises(x, field) == GetOr(x, field, Str("")).t # "str"

DateKey(x, field) == parse_date(GetOr(x, field, Str("")).s)

\* docs.sort(key=lambda x: parse_date(x.get('date', '')), reverse=True)
SortByDate(docs) == SortDescending(docs, LAMBDA x : DateKey(x, "date"))

\* create_document_summary: the fields taken from the document
create_document_summary(doc) ==
    Dict(<<"id", "date">>, <<Get(doc, "id"), GetOr(doc, "date", Str(""))>>)

\* {doc_type: [create_document_summary(doc) for doc in sorted docs]}
OrganizedDocuments(documents_by_type) ==
    Dict([k \in 1..Len(documents_by_type) |-> documents_by_type[k].key.s],
         [k \in 1..Len(documents_by_type) |->
             LET docs == SortByDate(documents_by_type[k].docs)
             IN  List([j \in 1..Len(docs) |-> create_document_summary(docs[j])])])

\* pope_id in popes_data
InPopesData(popes_data, pope_id) ==
    \E i \in 1..Len(popes_data) : Get(popes_data[i], "id") = pope_id

\* pope_data.get('names', {}).get('en', ...); the fallback is shown as the id
PopeName(pope_data) ==
    GetOr(GetOr(pope_data, "names", EmptyDict), "en", Get(pope_data, "id"))

\* generate_pope_feed, without the fields copied from the author as they are
generate_pope_feed(pope_id, pope_data, pope_docs) ==
    LET sorted == SortByDate(pope_docs)
        documents_by_type == group_documents_by_type(sorted)
        n == Len(sorted)
    IN  Dict(<<"pope", "statistics", "documents">>,
             << Dict(<<"id", "name">>, <<pope_id, PopeName(pope_data)>>),
                Dict(<<"total_documents", "document_types",
                       "latest_document_date", "earliest_document_date">>,
                     << Num(n), Num(Len(documents_by_type)),
                        IF n > 0 THEN GetOr(sorted[1], "date", Str("")) ELSE Str(""),
                        IF n > 0 THEN GetOr(sorted[n], "date", Str("")) ELSE Str("") >>),
                OrganizedDocuments(documents_by_type) >>)

\* a slip: a feed for every group that is not 'unknown'
Emits_AnyKnown(popes_data, pope_id) == pope_id # Str("unknown")

\* the two `continue` of the feed loop
Emits(popes_data, pope_id) ==
    IF pope_id = Str("unknown") THEN FALSE
    ELSE IF ~InPopesData(popes_data, pope_id) THEN FALSE
    ELSE TRUE

\* a slip: every group counts as one document
IndexEntry_CountsGroup(popes_data, group) ==
    Dict(<<"pope_id", "pope_name", "document_count">>,
         << group.key,
            PopeName(popes_data[IdIndex(popes_data, group.key)]),
            Num(1) >>)

\* the entry of feed/index.json for one group
IndexEntry(popes_data, group) ==
    Dict(<<"pope_id", "pope_name", "document_count">>,
         << group.key,
            PopeName(popes_data[IdIndex(popes_data, group.key)]),
            Num(Len(group.docs)) >>)

\* create_pope_feeds_api: the feed files written (feed/pope-{pope_id}.json)
\* and feed/index.json
create_pope_feeds_api(popes_list, documents) ==
    LET popes_data == load_popes_data(popes_list)
        pope_documents == group_documents_by_pope(documents)
        emitted == SelectSeq(pope_documents, LAMBDA g : Emits(popes_data, g.key))
        listed == SelectSeq(pope_documents,
                            LAMBDA g : g.key # Str("unknown")
                                       /\ InPopesData(popes_data, g.key))
        entries == [i \in 1..Len(listed) |-> IndexEntry(popes_data, listed[i])]
    IN  [ feeds |->
              [i \in 1..Len(emitted) |->
                  [pope_id |-> emitted[i].key,
                   feed |-> generate_pope_feed(
                                emitted[i].key,
                                popes_data[IdIndex(popes_data, emitted[i].key)],
                                emitted[i].docs)]],
          index |->
              Dict(<<"feeds", "meta">>,
                   << List(SortDescending(entries,
                                          LAMBDA e : Get(e, "document_count").n)),
                      Dict(<<"total_feeds">>, <<Num(Len(emitted))>>) >>) ]

\* xs.sort(key=...): stable, ascending; less(x, y) tells that the key of x
\* is smaller than the key of y
SortedBy(xs, less(_, _)) ==
    LET f[i \in 0..Len(xs)] ==
            IF i = 0 THEN <<>>
            ELSE LET before == f[i - 1]
                     x == xs[i]
                     \* x goes after the last element that is not greater
                     kept == {j \in 1..Len(before) : ~less(x, before[j])}
                     last_kept == IF kept = {} THEN 0
                                  ELSE CHOOSE j \in kept : \A o \in kept : o <= j
                 IN  SubSeq(before, 1, last_kept) \o <<x>>
                         \o SubSeq(before, last_kept + 1, Len(before))
    IN  f[Len(xs)]

\* the sort key (-document_count, parse_date(reign_start)) as tuples compare
PopeKeyLess(p, q) ==
    LET a == 0 - GetOr(p, "document_count", Num(0)).n
        b == 0 - GetOr(q, "document_count", Num(0)).n
    IN  \/ a < b
        \/ a = b /\ DateKey(p, "reign_start") < DateKey(q, "reign_start")

\* the body of the loop over popes_data.values()
WithDocumentCounts(pope, pope_documents) ==
    LET pope_id == Get(pope, "id")
        mine == SelectSeq(pope_documents, LAMBDA g : g.key = pope_id)
        pope_docs == IF mine = <<>> THEN <<>> ELSE mine[1].docs
        documents_by_type == group_documents_by_type(pope_docs)
        organized == SetKey(pope, "documents", OrganizedDocuments(documents_by_type))
        counted == SetKey(organized, "document_count", Num(Len(pope_docs)))
    IN  SetKey(counted, "document_types",
               List([k \in 1..Len(documents_by_type) |-> documents_by_type[k].key]))

\* update_popes_with_document_counts: the list written to popes.json, or
\* raised when the sort key of an author raises, and then nothing is written
update_popes_with_document_counts(popes_list, documents) ==
    LET popes_data == load_popes_data(popes_list)
        pope_documents == group_documents_by_pope(documents)
        updated_popes == [i \in 1..Len(popes_data) |->
                             WithDocumentCounts(popes_data[i], pope_documents)]
    IN  IF \E i \in 1..Len(updated_popes) : DateRaises(updated_popes[i], "reign_start")
        THEN [raised |-> TRUE, popes |-> popes_list]
        ELSE [raised |-> FALSE, popes |-> SortedBy(updated_popes, PopeKeyLess)]

MaxLoaded == 4

\* the reign-start values of popes.json: canonical dates, null (the detail
\* page was not read or gave no date), a text that is no canonical date
ReignStarts == {Str("2003-04-17"), Str("2015-05-24"), JNull, Str("Easter 2003")}

LoadedPope(id, reign_start) ==
    Dict(<<"id", "names", "reign_start">>,
         <<Str(id), Dict(<<"en">>, <<Str("name")>>), reign_start>>)

\* popes.json as loaded: no, one or two authors
LoadedPopeLists ==
    {<<>>}
    \cup { <<LoadedPope(id, rs)>> : id \in PopeIds, rs \in ReignStarts }
    \cup { <<LoadedPope("p1", r1), LoadedPope("p2", r2)>> :
               r1 \in ReignStarts, r2 \in ReignStarts }

\* the author references of the documents loaded: an author of popes.json
\* or not, a missing reference
AuthorRefs == {"p1", "p2", "p9", "missing"}

FeedDocumentIds == <<"d1", "d2", "d3", "d4", "d5">>

\* the date of the i-th document loaded
FeedDates == <<"2003-04-17", "2015-05-24", "2015-05-24", "", "2003-04-17">>

FeedDocument(i, ref, date) ==
    IF ref = "missing"
    THEN Dict(<<"id", "type", "date">>,
              <<Str(FeedDocumentIds[i]), Str("encyclicals"), Str(date)>>)
    ELSE Dict(<<"id", "pope_id", "type", "date">>,
              <<Str(FeedDocumentIds[i]), Str(ref), Str("encyclicals"), Str(date)>>)

\* the documents loaded, in the order of the directory listing
FeedDocumentLists ==
    { [i \in 1..Len(refs) |-> FeedDocument(i, refs[i], FeedDates[i])] :
          refs \in SeqsUpTo(AuthorRefs, MaxLoaded) }

FInit ==
    /\ \E op \in {"create_pope_feeds_api", "update_popes_with_document_counts"},
          popes_list \in LoadedPopeLists, documents \in FeedDocumentLists :
           call = [op |-> op, popes_list |-> popes_list, documents |-> documents,
                   done |-> FALSE, raised |-> FALSE, feeds |-> <<>>,
                   index |-> JNull, popes |-> <<>>]
    /\ NoRun
    /\ mdata = JNull
    /\ mhist = <<>>

CreateFeeds ==
    /\ call.op = "create_pope_feeds_api"
    /\ ~call.done
    /\ LET r == create_pope_feeds_api(call.popes_list, call.documents)
       IN  call' = [call EXCEPT !.done = TRUE, !.feeds = r.feeds, !.index = r.index]
    /\ UNCHANGED <<mvars, ovars>>

UpdateCounts ==
    /\ call.op = "update_popes_with_document_counts"
    /\ ~call.done
    /\ LET r == update_popes_with_document_counts(call.popes_list, call.documents)
       IN  call' = [call EXCEPT !.done = TRUE, !.raised = r.raised, !.popes = r.popes]
    /\ UNCHANGED <<mvars, ovars>>

FNext == CreateFeeds \/ UpdateCounts

FeedsSpec == FInit /\ [][FNext]_vars

(***************************************************************************)
(* The output directory over time: run_scraper run again and again, each   *)
(* run taken as one step, and between the runs the feed generator, which   *)
(* resorts popes.json, and the image downloader, which enriches it.        *)
(***************************************************************************)
ViewIndent == 2

\* Step 2 of run_scraper for one author
ProcessedPope(pope, sidebar, pages, fs) ==
    LET indexed == update_pope_documents_index(pope, sidebar)
        doc_type == document_types[1]
    IN  IF HasKey(IndexOf(indexed), doc_type)
        THEN scrape_and_add_documents_to_pope(indexed, doc_type, pages,
                                              DefaultResume, fs)
        ELSE [pope |-> indexed, all_documents |-> <<>>, fetches |-> <<>>]

\* the calls of save_api_file of Step 3, in their order
Writes(authors, documents) ==
    LET pope_writes == [i \in 1..Len(authors) |->
                           [path |-> PopePath(authors[i].id),
                            data |-> Pope_to_dict(authors[i])]] \o <<>>
    IN  [i \in 1..Len(documents) |->
            [path |-> DocumentPath(documents[i].id),
             data |-> Document_to_dict(documents[i])]]
        \o pope_writes
        \o << [path |-> PopesJson,
               data |-> List([i \in 1..Len(authors) |-> pope_writes[i].data])] >>

\* the output directory after the first k writes, or after the write that
\* raised, if one did
SaveAll(fs, writes, k) ==
    LET f[i \in 0..k] ==
            IF i = 0 THEN [files |-> fs, raised |-> FALSE]
            ELSE LET before == f[i - 1]
                     w == writes[i]
                     r == save_api_file(before.files[w.path], w.data)
                 IN  IF before.raised THEN before
                     ELSE [files |-> [before.files EXCEPT ![w.path] = r.file],
                           raised |-> r.raised]
    IN  f[k]

\* the index pages served to an author that has an index URL for the
\* document type: what the first URL serves, the second one fails
PagePairs == {pg \in [1..2 -> IndexPages(1)] : pg[2] = FailedPage}

NoPages == [i \in 1..2 |-> FailedPage]

\* Step 2 of run_scraper: the authors processed and the documents gathered
\* after the loop over all_popes
ProcessPopes(collected, sidebars, pages, fs) ==
    LET step[i \in 0..Len(collected)] ==
            IF i = 0 THEN [authors |-> <<>>, documents |-> <<>>]
            ELSE LET before == step[i - 1]
                     r == ProcessedPope(collected[i], sidebars[i], pages[i], fs)
                 IN  [authors |-> Append(before.authors, r.pope),
                      documents |-> CollectById(before.documents, r.all_documents)]
    IN  step[Len(collected)]

\* what the remote site serves to a run that found the authors collected
Served(collected) ==
    { [sidebars |-> sb, pages |-> pg] :
          sb \in {x \in [1..Len(collected) -> UNION {Sidebars(id) : id \in PopeIds}] :
                      \A i \in 1..Len(collected) : x[i] \in Sidebars(collected[i].id)},
          pg \in [1..Len(collected) -> PagePairs \cup {NoPages}] }

\* run_scraper from its first line to its return, to the exception that
\* leaves it, or to the point where it is stopped from outside: between
\* two writes or in the middle of one
RunScraper ==
    /\ pc = "idle"
    /\ runs < MaxRuns
    /\ runs' = runs + 1
    /\ \E links \in LinkLists :
       \E details \in {d \in [1..Len(links) -> {FailedDetail, FullDetail}] :
                             \A i \in 1..Len(links) : d[i] \in DetailPages(links[i])} :
       \E found \in {scrape_pope_list(links, details)} :
           IF NoPopesFound(found)
           THEN UNCHANGED <<files, stops>>
           ELSE \E collected \in {CollectById(<<>>, found)} :
                \E served \in {sv \in Served(collected) :
                                   \A i \in 1..Len(collected) :
                                       sv.sidebars[i] = <<>> <=> sv.pages[i] = NoPages} :
                \E end \in {ProcessPopes(collected, served.sidebars, served.pages,
                                         files)} :
                \E writes \in {Writes(end.authors, end.documents)} :
                    \/ /\ \E saved \in {SaveAll(files, writes, Len(writes))} :
                              files' = saved.files
                       /\ UNCHANGED stops
                    \/ /\ stops < MaxStops
                       /\ stops' = stops + 1
                       /\ \E k \in 0..(Len(writes) - 1) :
                          \E saved \in {SaveAll(files, writes, k)} :
                              /\ ~saved.raised
                              /\ \/ files' = saved.files
                                 \/ \E partial \in PartialWrites :
                                        files' = [saved.files EXCEPT
                                                     ![writes[k + 1].path] = partial]
    /\ UNCHANGED <<pc, popes, all_popes, all_documents, pi, di, last, args,
                   fetched, xvars>>

\* load_all_documents over documents/*.json in the order of the directory
\* listing: a file that is no JSON is passed over, one that is no UTF-8
\* raises UnicodeDecodeError
load_all_documents(fs, listing) ==
    LET present == SelectSeq(listing, LAMBDA id : fs[DocumentPath(id)].t # "absent")
    IN  [ raised |-> \E i \in 1..Len(present) :
                         fs[DocumentPath(present[i])].t = "badbytes",
          documents |->
              LET loaded == SelectSeq(present,
                                      LAMBDA id : fs[DocumentPath(id)].t = "text")
              IN  [i \in 1..Len(loaded) |-> fs[DocumentPath(loaded[i])].v] ]

\* the orders in which the directory may list the documents
Listings == {<<"d1", "d2">>, <<"d2", "d1">>}

\* update_popes_with_document_counts on the output directory: popes.json is
\* rewritten, or the call raises before it opens popes.json for writing
UpdatePopes ==
    /\ pc = "idle"
    /\ \E listing \in Listings :
           LET popes_file == json_load(files[PopesJson])
               loaded == load_all_documents(files, listing)
               r == update_popes_with_document_counts(popes_file.value.l,
                                                      loaded.documents)
           IN  IF ~popes_file.ok \/ loaded.raised \/ r.raised
               THEN UNCHANGED files
               ELSE files' = [files EXCEPT
                                 ![PopesJson] = json_dump(List(r.popes), ViewIndent)]
    /\ UNCHANGED <<pc, popes, all_popes, all_documents, pi, di, runs, last, args,
                   fetched, stops, xvars>>

\* what download_pope_images returns for an author: the local paths of the
\* images it could find and download
ImageResults == { [image |-> JNull, coat |-> JNull],
                  [image |-> Str("photo"), coat |-> JNull],
                  [image |-> Str("photo"), coat |-> Str("coat_of_arms")] }

\* vatican_urls.get('en') or next(iter(vatican_urls.values()), None)
VaticanUrlOf(pope_data) ==
    LET vatican_urls == GetOr(GetOr(pope_data, "metadata", EmptyDict),
                              "vatican_urls", EmptyDict)
    IN  IF HasKey(vatican_urls, "en") /\ Get(vatican_urls, "en") \notin {JNull, Str("")}
        THEN Get(vatican_urls, "en")
        ELSE IF Len(vatican_urls.l) > 0 THEN vatican_urls.l[1] ELSE JNull

\* one turn of the loop of process_multiple_popes
WithImages(pope_data, result) ==
    LET photo == IF result.image # JNull
                 THEN SetKey(pope_data, "local_image_path", result.image)
                 ELSE pope_data
    IN  IF VaticanUrlOf(pope_data) \in {JNull, Str("")} THEN pope_data
        ELSE IF result.coat # JNull
             THEN SetKey(photo, "local_coat_of_arms_path", result.coat)
             ELSE photo

\* process_multiple_popes
process_multiple_popes(pope_data_list, results) ==
    [i \in 1..Len(pope_data_list) |-> WithImages(pope_data_list[i], results[i])]

\* download_all_pope_images on the output directory
DownloadImages ==
    /\ pc = "idle"
    /\ files[PopesJson].t # "absent"
    /\ LET popes_file == json_load(files[PopesJson])
       IN  IF ~popes_file.ok
           THEN UNCHANGED files
           ELSE \E results \in [1..Len(popes_file.value.l) -> ImageResults] :
                    files' = [files EXCEPT
                                 ![PopesJson] =
                                     json_dump(List(process_multiple_popes(
                                                        popes_file.value.l, results)),
                                               ViewIndent)]
    /\ UNCHANGED <<pc, popes, all_popes, all_documents, pi, di, runs, last, args,
                   fetched, stops, xvars>>

SNext == RunScraper \/ UpdatePopes \/ DownloadImages

StoreSpec == Init /\ [][SNext]_vars

(***************************************************************************)
(* update_pope_documents_index on the links of the accordion menu of an    *)
(* author page.  An href is the sequence of its characters.                *)
(***************************************************************************)
\* href.split("/"): the runs between two separators, empty runs kept
RECURSIVE SplitOn(_, _, _, _, _)
SplitOn(text, sep, i, word, parts) ==
    IF i > Len(text) THEN Append(parts, word)
    ELSE IF text[i] = sep
         THEN SplitOn(text, sep, i + 1, <<>>, Append(parts, word))
         ELSE SplitOn(text, sep, i + 1, Append(word, text[i]), parts)

\* sub occurs in text at place i
StartsAt(text, sub, i) ==
    /\ i + Len(sub) - 1 <= Len(text)
    /\ SubSeq(text, i, i + Len(sub) - 1) = sub

\* sub in text, for a sub that is not empty
Contains(text, sub) == \E i \in 1..Len(text) : StartsAt(text, sub, i)

\* text.replace(sub, "") from place i on: the occurrences are taken from
\* left to right and do not overlap
RECURSIVE Without(_, _, _)
Without(text, sub, i) ==
    IF i > Len(text) THEN <<>>
    ELSE IF StartsAt(text, sub, i) THEN Without(text, sub, i + Len(sub))
    ELSE <<text[i]>> \o Without(text, sub, i + 1)

\* str.isdigit: one character at least, digits only
isdigit(text) == text # <<>> /\ AllDigits(text)

\* parts.index(x): the first place of x, 0 for ValueError
index(parts, x) ==
    IF \E i \in 1..Len(parts) : parts[i] = x
    THEN CHOOSE i \in 1..Len(parts) :
             parts[i] = x /\ \A j \in 1..(i - 1) : parts[j] # x
    ELSE 0

\* the string that has these characters
RECURSIVE Text(_)
Text(chars) == IF chars = <<>> THEN "" ELSE chars[1] \o Text(Tail(chars))

BASE_URL == <<"h", "t", "t", "p", "s", ":", "/", "/", "w", "w", "w", ".", "v", "a", "t", "i", "c", "a", "n", ".", "v", "a">>

\* urljoin(base, url) for an absolute https URL, a path from the root and
\* a relative path without dot segments, base having no path
urljoin(base, url) ==
    IF StartsAt(url, <<"h", "t", "t", "p", "s", ":", "/", "/">>, 1) THEN url
    ELSE IF StartsAt(url, <<"/">>, 1) THEN base \o url
    ELSE base \o <<"/">> \o url

\* lines 123-137: doc_type from the parts of the href, the empty text for
\* None (both are skipped by "if doc_type")
DocTypeOf(parts) ==
    LET lang_index == index(parts, <<"e", "n">>)
    IN  IF lang_index = 0 \/ lang_index + 1 > Len(parts) THEN <<>>
        ELSE IF Contains(parts[lang_index + 1], <<".", "i", "n", "d", "e", "x", ".", "h", "t", "m", "l">>)
        THEN Without(parts[lang_index + 1], <<".", "i", "n", "d", "e", "x", ".", "h", "t", "m", "l">>, 1)
        ELSE IF isdigit(parts[lang_index + 1])
        THEN IF lang_index + 2 <= Len(parts) THEN parts[lang_index + 1] ELSE <<>>
        ELSE parts[lang_index + 1]

\* one <li> of the accordion menu whose <a> has the href: whether an index
\* URL is recorded for it, under which type, and the URL
SidebarLink(href) ==
    LET doc_type == DocTypeOf(SplitOn(href, "/", 1, <<>>, <<>>))
    IN  [ usable |-> /\ Contains(href, <<"/", "c", "o", "n", "t", "e", "n", "t", "/">>)
                     /\ Contains(href, <<".", "h", "t", "m", "l">>)
                     /\ ~Contains(href, <<"#">>)
                     /\ doc_type # <<>>,
          doc_type |-> Text(replace(doc_type, "_", "-")),
          url |-> Text(urljoin(BASE_URL, href)) ]

\* the links recorded for the hrefs of the menu, in the order of the menu
SidebarOf(hrefs) ==
    LET f[i \in 0..Len(hrefs)] ==
            IF i = 0 THEN <<>>
            ELSE IF SidebarLink(hrefs[i]).usable
                 THEN Append(f[i - 1], [doc_type |-> SidebarLink(hrefs[i]).doc_type,
                                        url |-> SidebarLink(hrefs[i]).url])
                 ELSE f[i - 1]
    IN  f[Len(hrefs)]

MaxLinks == 2

\* the hrefs met in the menu
MenuHrefs ==
    { \* an index of a type: /content/p1/en/enc.index.html
      <<"/", "c", "o", "n", "t", "e", "n", "t", "/", "p", "1", "/", "e", "n", "/", "e", "n", "c", ".", "i", "n", "d", "e", "x", ".", "h", "t", "m", "l">>,
      \* a type written with an underscore: /content/p1/en/a_b.index.html
      <<"/", "c", "o", "n", "t", "e", "n", "t", "/", "p", "1", "/", "e", "n", "/", "a", "_", "b", ".", "i", "n", "d", "e", "x", ".", "h", "t", "m", "l">>,
      \* a year, then the index of a type: /content/p1/en/2013/a_b.index.html
      <<"/", "c", "o", "n", "t", "e", "n", "t", "/", "p", "1", "/", "e", "n", "/", "2", "0", "1", "3", "/", "a", "_", "b", ".", "i", "n", "d", "e", "x", ".", "h", "t", "m", "l">>,
      \* a type, then the index of a year: /content/p1/en/a_b/2013.index.html
      <<"/", "c", "o", "n", "t", "e", "n", "t", "/", "p", "1", "/", "e", "n", "/", "a", "_", "b", "/", "2", "0", "1", "3", ".", "i", "n", "d", "e", "x", ".", "h", "t", "m", "l">>,
      \* the index of a year: /content/p1/en/2013.index.html
      <<"/", "c", "o", "n", "t", "e", "n", "t", "/", "p", "1", "/", "e", "n", "/", "2", "0", "1", "3", ".", "i", "n", "d", "e", "x", ".", "h", "t", "m", "l">>,
      \* an absolute URL: https://www.vatican.va/content/p1/en/enc.index.html
      <<"h", "t", "t", "p", "s", ":", "/", "/", "w", "w", "w", ".", "v", "a", "t", "i", "c", "a", "n", ".", "v", "a", "/", "c", "o", "n", "t", "e", "n", "t", "/", "p", "1", "/", "e", "n", "/", "e", "n", "c", ".", "i", "n", "d", "e", "x", ".", "h", "t", "m", "l">>,
      \* no English segment: /content/p1/it/enc.index.html
      <<"/", "c", "o", "n", "t", "e", "n", "t", "/", "p", "1", "/", "i", "t", "/", "e", "n", "c", ".", "i", "n", "d", "e", "x", ".", "h", "t", "m", "l">>,
      \* a fragment: /content/p1/en/enc.index.html#top
      <<"/", "c", "o", "n", "t", "e", "n", "t", "/", "p", "1", "/", "e", "n", "/", "e", "n", "c", ".", "i", "n", "d", "e", "x", ".", "h", "t", "m", "l", "#", "t", "o", "p">>,
      \* no page: /content/p1/en/enc/
      <<"/", "c", "o", "n", "t", "e", "n", "t", "/", "p", "1", "/", "e", "n", "/", "e", "n", "c", "/">> }

LInit ==
    /\ \E hrefs \in SeqsUpTo(MenuHrefs, MaxLinks) :
           call = [op |-> "update_pope_documents_index", hrefs |-> hrefs,
                   done |-> FALSE, pope |-> Pope("p1", "name", "url")]
    /\ NoRun
    /\ mdata = JNull
    /\ mhist = <<>>

\* update_pope_documents_index(pope) on the author page with the menu
UpdateIndex ==
    /\ ~call.done
    /\ call' = [call EXCEPT !.done = TRUE,
                            !.pope = update_pope_documents_index(
                                         call.pope, SidebarOf(call.hrefs))]
    /\ UNCHANGED <<mvars, ovars>>

LNext == UpdateIndex

LinksSpec == LInit /\ [][LNext]_vars

(***************************************************************************)
(* scrape_and_add_documents_to_pope called on its own, for an author that  *)
(* may already hold summaries.                                             *)
(***************************************************************************)
\* a summary held before the call
HeldSummary(id, doc_type) ==
    to_summary(CandidateDocument(Item(id, <<"en">>, FALSE, <<>>), "p1", doc_type))

\* pope.documents before the call
HeldDocuments ==
    { <<>>,
      <<[type |-> "letters", docs |-> <<HeldSummary("d2", "letters")>>]>>,
      <<[type |-> "letters", docs |-> <<HeldSummary("d2", "letters")>>],
        [type |-> "encyclicals", docs |-> <<HeldSummary("d1", "encyclicals")>>]>> }

AInit ==
    /\ \E sidebar \in Sidebars("p1"), held \in HeldDocuments,
          doc_type \in {"encyclicals", "letters"},
          pages \in [1..2 -> IndexPages(1)] :
           call = [op |-> "scrape_and_add_documents_to_pope",
                   pope |-> [update_pope_documents_index(Pope("p1", "name", "url"),
                                                         sidebar)
                                EXCEPT !.documents = held],
                   doc_type |-> doc_type, pages |-> pages, done |-> FALSE,
                   after |-> Pope("p1", "name", "url"), returned |-> <<>>]
    /\ NoRun
    /\ mdata = JNull
    /\ mhist = <<>>

\* scrape_and_add_documents_to_pope(call.pope, call.doc_type): the author
\* afterwards and the list returned
AddDocuments ==
    /\ ~call.done
    /\ \E r \in { IF HasKey(IndexOf(call.pope), call.doc_type)
                  THEN scrape_and_add_documents_to_pope(call.pope, call.doc_type,
                                                        call.pages, DefaultResume, files)
                  ELSE [pope |-> call.pope, all_documents |-> <<>>, fetches |-> <<>>] } :
           call' = [call EXCEPT !.done = TRUE, !.after = r.pope,
                                !.returned = r.all_documents]
    /\ UNCHANGED <<mvars, ovars>>

ANext == AddDocuments

SummarySpec == AInit /\ [][ANext]_vars

(***************************************************************************)
(* The view generators create_paginated_posts_api and                      *)
(* create_pope_feeds_api on an output directory that runs of the scraper   *)
(* have left.  A view file holds the value the generator dumped.           *)
(***************************************************************************)
\* popes.json as left by a run that found these authors
StoredPopes(ids) ==
    json_dump(List([i \in 1..Len(ids) |-> Pope_to_dict(Pope(ids[i], "name", ids[i]))]),
              SaveIndent)

StoredPopeLists == {<<>>, <<"p1">>, <<"p1", "p2">>}

VInit ==
    /\ \E ids \in StoredPopeLists, d1 \in PersistedD1, d2 \in PersistedD2 :
           files = [p \in Paths |->
                       IF p = PopesJson
                       THEN IF ids = <<>> THEN Absent ELSE StoredPopes(ids)
                       ELSE IF \E i \in 1..Len(ids) : p = PopePath(ids[i])
                       THEN json_dump(Pope_to_dict(Pope(p[2], "name", p[2])), SaveIndent)
                       ELSE IF p = DocumentPath("d1") THEN d1
                       ELSE IF p = DocumentPath("d2") THEN d2
                       ELSE Absent]
    /\ call = [op |-> "none", raised |-> FALSE]
    /\ Idle
    /\ mdata = JNull
    /\ mhist = <<>>

\* what both generators read: popes.json and the documents in the order of
\* the listing; raised when open or json.load on popes.json raises, when a
\* document file is no UTF-8, or when a value loaded is no record, which
\* the first .get or ['id'] on it shows
LoadedStore(fs, listing) ==
    LET popes_file == json_load(fs[PopesJson])
        loaded == load_all_documents(fs, listing)
    IN  [ raised |-> \/ ~popes_file.ok
                     \/ ~IsList(popes_file.value)
                     \/ loaded.raised
                     \/ \E i \in 1..Len(loaded.documents) :
                            ~IsDict(loaded.documents[i]),
          popes_list |-> IF popes_file.ok /\ IsList(popes_file.value)
                         THEN popes_file.value.l ELSE <<>>,
          documents |-> loaded.documents ]

\* the fields of a loaded document that create_post_from_document and the
\* sort look at
AsLoaded(doc) ==
    [ id |-> Get(doc, "id").s,
      pope_id |-> GetOr(doc, "pope_id", Str("unknown")).s,
      date |-> GetOr(doc, "date", Str("")).s,
      languages |-> Len(GetOr(GetOr(doc, "metadata", EmptyDict),
                              "vatican_urls", EmptyDict).l) ]

\* posts_generator.load_popes_data as get_pope_display_name uses it
NamesOf(popes_list) ==
    [id \in {Get(popes_list[i], "id").s : i \in 1..Len(popes_list)} |->
        PopeName(popes_list[CHOOSE i \in 1..Len(popes_list) :
                                /\ Get(popes_list[i], "id").s = id
                                /\ \A j \in (i + 1)..Len(popes_list) :
                                       Get(popes_list[j], "id").s # id]).s]

\* the page files and posts/index.json written
WritePosts(fs, r) ==
    [p \in Paths |->
        IF p = PostsIndexPath THEN json_dump(r.index, ViewIndent)
        ELSE IF \E n \in 1..Len(r.pages) : p = PostsPagePath(n)
        THEN json_dump(r.pages[CHOOSE n \in 1..Len(r.pages) : p = PostsPagePath(n)],
                       ViewIndent)
        ELSE fs[p]]

\* the feed files and feed/index.json written
WriteFeeds(fs, r) ==
    [p \in Paths |->
        IF p = FeedIndexPath THEN json_dump(r.index, ViewIndent)
        ELSE IF \E i \in 1..Len(r.feeds) : p = FeedPath(r.feeds[i].pope_id.s)
        THEN json_dump(r.feeds[CHOOSE i \in 1..Len(r.feeds) :
                                   p = FeedPath(r.feeds[i].pope_id.s)].feed,
                       ViewIndent)
        ELSE fs[p]]

\* create_paginated_posts_api(api_dir): everything is loaded and computed
\* before posts/ is written, so a call that raises has written nothing
CreatePostsApi ==
    /\ \E listing \in Listings :
       \E store \in {LoadedStore(files, listing)} :
           IF store.raised
           THEN /\ call' = [op |-> "create_paginated_posts_api", raised |-> TRUE]
                /\ UNCHANGED files
           ELSE /\ call' = [op |-> "create_paginated_posts_api", raised |-> FALSE]
                /\ \E documents \in
                       {[i \in 1..Len(store.documents) |-> AsLoaded(store.documents[i])]} :
                       files' = WritePosts(files,
                                           create_paginated_posts_api(
                                               documents, NamesOf(store.popes_list)))
    /\ UNCHANGED <<mvars, pc, popes, all_popes, all_documents, pi, di, runs, last,
                   args, fetched, stops>>

\* create_pope_feeds_api(api_dir)
CreateFeedsApi ==
    /\ \E listing \in Listings :
       \E store \in {LoadedStore(files, listing)} :
           IF store.raised
           THEN /\ call' = [op |-> "create_pope_feeds_api", raised |-> TRUE]
                /\ UNCHANGED files
           ELSE /\ call' = [op |-> "create_pope_feeds_api", raised |-> FALSE]
                /\ files' = WriteFeeds(files,
                                       create_pope_feeds_api(store.popes_list,
                                                             store.documents))
    /\ UNCHANGED <<mvars, pc, popes, all_popes, all_documents, pi, di, runs, last,
                   args, fetched, stops>>

VNext == CreatePostsApi \/ CreateFeedsApi

ViewSpec == VInit /\ [][VNext]_vars

\* the file before the first call, after the k-th call; whether k calls were made
MPrior == mhist[1].file

MAfter(k) == mhist[k + 1].file

MCalled(k) == Len(mhist) > k

\* the elements of xs at the places in S, in their order in xs
Pick(xs, S) ==
    LET f[i \in 0..Len(xs)] ==
            IF i = 0 THEN <<>>
            ELSE IF i \in S THEN Append(f[i - 1], xs[i]) ELSE f[i - 1]
    IN  f[Len(xs)]

IdOf(item) == Get(item, "id")

IdSet(xs) == {IdOf(xs[i]) : i \in 1..Len(xs)}

NoRepeatedId(xs) == \A i, j \in 1..Len(xs) : IdOf(xs[i]) = IdOf(xs[j]) => i = j

\* C1 (as claimed): persisting the same value twice in succession leaves the
\* file after the second call identical to the file after the first call,
\* whatever the value and whatever the file held before.
C1_PersistIdempotent == MCalled(2) => MAfter(2) = MAfter(1)

\* C5: merging a new mapping onto an existing mapping gives a mapping over
\* the union of the two key sets; a key only in the existing mapping keeps
\* its value; a key of the new mapping holds the recursive merge when the
\* existing and the new value are both a mapping or a sequence, and the new
\* value otherwise.
C5_MappingMerge ==
    (MCalled(1) /\ MPrior.t = "text" /\ IsDict(MPrior.v) /\ IsDict(mdata)) =>
        LET existing == MPrior.v
            result == MAfter(1).v
        IN  /\ IsDict(result)
            /\ KeySet(result) = KeySet(existing) \cup KeySet(mdata)
            /\ Len(result.ks) = Cardinality(KeySet(result))
            /\ \A k \in KeySet(existing) \ KeySet(mdata) :
                   Get(result, k) = Get(existing, k)
            /\ \A k \in KeySet(mdata) :
                   Get(result, k) =
                       IF /\ k \in KeySet(existing)
                          /\ IsMergeable(Get(existing, k))
                          /\ IsMergeable(Get(mdata, k))
                       THEN deep_merge(Get(mdata, k), Get(existing, k))
                       ELSE Get(mdata, k)

\* C5's case: a key only in the existing mapping, and a key of both whose
\* merged value is neither the old nor the new one
C5_Witness ==
    /\ MCalled(1) /\ MPrior.t = "text" /\ IsDict(MPrior.v) /\ IsDict(mdata)
    /\ KeySet(MPrior.v) \ KeySet(mdata) # {}
    /\ \E k \in KeySet(MPrior.v) \cap KeySet(mdata) :
           /\ Get(MAfter(1).v, k) # Get(MPrior.v, k)
           /\ Get(MAfter(1).v, k) # Get(mdata, k)

KeyedCase ==
    /\ MCalled(1) /\ MPrior.t = "text" /\ IsList(MPrior.v) /\ IsList(mdata)
    /\ AllHaveId(MPrior.v.l) /\ AllHaveId(mdata.l)

\* the keyed merge as C6 words it: the existing elements, each merged with
\* the new element of its id, then the new elements of an id not present
KeyedAsClaimed(existing, new) ==
    LET Upd(e) == IF IdIndex(new, IdOf(e)) = 0 THEN e
                  ELSE deep_merge(new[IdIndex(new, IdOf(e))], e)
    IN  [i \in 1..Len(existing) |-> Upd(existing[i])]
            \o Pick(new, {i \in 1..Len(new) : IdIndex(existing, IdOf(new[i])) = 0})

\* the element the keyed merge holds for an id: the last existing element of
\* that id (the first new one when there is none), merged in turn with the
\* (other) new elements of that id
KeyedElement(existing, new, id) ==
    LET olds == {i \in 1..Len(existing) : IdOf(existing[i]) = id}
        news == Pick(new, {i \in 1..Len(new) : IdOf(new[i]) = id})
        base == IF olds # {}
                THEN existing[CHOOSE i \in olds : \A j \in olds : j <= i]
                ELSE news[1]
        rest == IF olds # {} THEN news ELSE Tail(news)
        g[k \in 0..Len(rest)] ==
            IF k = 0 THEN base ELSE deep_merge(rest[k], g[k - 1])
    IN  g[Len(rest)]

\* one element per id, in the order the ids first appear (existing, then new)
KeyedInGeneral(existing, new) ==
    LET all == existing \o new
        firsts == Pick(all, {i \in 1..Len(all) :
                                 \A j \in 1..(i - 1) : IdOf(all[j]) # IdOf(all[i])})
    IN  [k \in 1..Len(firsts) |-> KeyedElement(existing, new, IdOf(firsts[k]))]

\* C6 (as claimed): for two sequences of id-carrying mappings the merge is
\* the existing elements in their order, each merged with the new element of
\* the same id, followed by the new elements whose id was not present, and
\* it has exactly one element per distinct id of the two inputs.
C6_KeyedMergeAsClaimed ==
    KeyedCase =>
        /\ MAfter(1).v.l = KeyedAsClaimed(MPrior.v.l, mdata.l)
        /\ NoRepeatedId(MAfter(1).v.l)
        /\ IdSet(MAfter(1).v.l) = IdSet(MPrior.v.l) \cup IdSet(mdata.l)

\* C6 (amended): the merge of two sequences of id-carrying mappings has
\* exactly one element per distinct id, in the order the ids first appear
\* (existing sequence first); the element of an id is the last existing
\* element of that id (the first new one when none exists) merged in turn
\* with the new elements of that id.  When no id repeats within either
\* sequence this is the sequence C6 describes.
C6_KeyedMerge ==
    KeyedCase =>
        /\ MAfter(1).v.l = KeyedInGeneral(MPrior.v.l, mdata.l)
        /\ NoRepeatedId(MAfter(1).v.l)
        /\ IdSet(MAfter(1).v.l) = IdSet(MPrior.v.l) \cup IdSet(mdata.l)
        /\ (NoRepeatedId(MPrior.v.l) /\ NoRepeatedId(mdata.l)) =>
               MAfter(1).v.l = KeyedAsClaimed(MPrior.v.l, mdata.l)

\* C6's case: an existing element merged with a new one of its id into a
\* value that is neither, and a new element appended
C6_Witness ==
    /\ KeyedCase
    /\ NoRepeatedId(MPrior.v.l) /\ NoRepeatedId(mdata.l)
    /\ Len(MAfter(1).v.l) > Len(MPrior.v.l)
    /\ \E i \in 1..Len(MPrior.v.l) :
           /\ MAfter(1).v.l[i] # MPrior.v.l[i]
           /\ \A j \in 1..Len(mdata.l) : MAfter(1).v.l[i] # mdata.l[j]

\* C7: for two sequences that are not both id-keyed the merge is the
\* existing sequence, unchanged, followed by the elements of the new
\* sequence equal to no element already in the result, in the order of their
\* first appearance in the new sequence.
C7_AppendUnique ==
    ( /\ MCalled(1) /\ MPrior.t = "text" /\ IsList(MPrior.v) /\ IsList(mdata)
      /\ ~(AllHaveId(MPrior.v.l) /\ AllHaveId(mdata.l)) ) =>
        LET existing == MPrior.v.l
            new == mdata.l
            kept == {i \in 1..Len(new) :
                        /\ ~PyIn(new[i], existing)
                        /\ \A j \in 1..(i - 1) : ~PyEq(new[j], new[i])}
        IN  MAfter(1).v = List(existing \o Pick(new, kept))

\* C7's case, the spec's example shortened: merging [1,2] into [2,3]
C7_Witness ==
    /\ MCalled(1)
    /\ MPrior = json_dump(List(<<Num(2), Num(3)>>), SaveIndent)
    /\ mdata = List(<<Num(1), Num(2)>>)
    /\ MAfter(1).v = List(<<Num(2), Num(3), Num(1)>>)

\* C8 (as claimed): when the file exists and its content cannot be decoded,
\* the call does not raise and leaves the file holding exactly the value.
C8_DecodeFailureOverwrites ==
    (MCalled(1) /\ MPrior.t \in {"garbage", "badbytes"}) =>
        /\ ~mhist[2].raised
        /\ MAfter(1) = json_dump(mdata, SaveIndent)

(***************************************************************************)
(* The output directory across runs of the scraper.                        *)
(***************************************************************************)

\* this step is the run being stopped from outside, not a step of its code
StopStep == pc # "idle" /\ last' = "interrupted"

\* the language-keyed maps of a persisted Document record
LanguageMaps == {"raw_html", "vatican_urls", "excerpt"}

\* the language keys of map m of the Document record doc
Languages(doc, m) ==
    IF m = "excerpt" THEN KeySet(Get(doc, "excerpt"))
    ELSE KeySet(Get(Get(doc, "metadata"), m))

\* C2: a call of save_api_file on documents/{id}.json whose file is
\* decodable before the call leaves a decodable file in which every
\* language key of metadata.raw_html, metadata.vatican_urls and excerpt that
\* was there before the call is still there, also when the Document
\* persisted brings an empty or smaller language map.
C2_LanguagesKept ==
    [][ \A id \in DocumentIds :
            LET before == files[DocumentPath(id)]
                after == files'[DocumentPath(id)]
            IN  (before.t = "text" /\ ~StopStep) =>
                    /\ after.t = "text"
                    /\ \A m \in LanguageMaps :
                           Languages(before.v, m) \subseteq Languages(after.v, m)
      ]_vars

\* a run has persisted d1 with no content and one language URL onto a file
\* that recorded two languages, and both are still recorded
C2_Witness ==
    /\ pc \in {"save_popes", "save_list"}
    /\ \E i \in 1..Len(all_documents) :
           LET doc == all_documents[i]
               file == files[DocumentPath(doc.id)]
           IN  /\ i < di
               /\ Get(doc.metadata, "raw_html") = EmptyDict
               /\ KeySet(Get(doc.metadata, "vatican_urls")) = {"en"}
               /\ doc.excerpt = EmptyDict
               /\ file.t = "text"
               /\ \A m \in LanguageMaps : Languages(file.v, m) = {"en", "la"}

AuthorFields ==
    {"full_name", "reign_start", "reign_end", "local_image_path",
     "local_coat_of_arms_path"}

\* the Author records of the output directory fs, each with the place it is
\* persisted at: popes/{id}.json, and the elements of popes.json
PersistedAuthors(fs) ==
    { [at |-> PopePath(id), author |-> fs[PopePath(id)].v] :
          id \in {i \in PopeIds : fs[PopePath(i)].t = "text"} }
        \cup IF fs[PopesJson].t = "text" /\ IsList(fs[PopesJson].v)
             THEN { [at |-> <<"popes.json", IdOf(fs[PopesJson].v.l[i]).s>>,
                     author |-> fs[PopesJson].v.l[i]] :
                        i \in 1..Len(fs[PopesJson].v.l) }
             ELSE {}

\* (place, field) of every Author field persisted with a value other than null
NonNullFields(fs) ==
    { <<q[1].at, q[2]>> :
          q \in { r \in PersistedAuthors(fs) \X AuthorFields :
                      Get(r[1].author, r[2]) # JNull } }

\* C3 (as claimed): no step of a run replaces a persisted non-null Author
\* field (full_name, reign_start, reign_end, local_image_path,
\* local_coat_of_arms_path) of popes/{id}.json or popes.json by null.
C3_AuthorFieldsKept ==
    [][ ~StopStep => NonNullFields(files) \subseteq NonNullFields(files') ]_vars

\* the per-type Document Summary lists of a persisted Author record
SummaryLists(author) ==
    LET documents == Get(author, "documents")
    IN  {Get(documents, doc_type).l : doc_type \in KeySet(documents)}

\* C4 (as claimed): no per-type Document Summary list of a persisted Author
\* record, in popes/{id}.json or popes.json, holds two elements of the same
\* id, after the first run as after any later one.
C4_NoDuplicateSummaries ==
    \A r \in PersistedAuthors(files) :
        \A summaries \in SummaryLists(r.author) : NoRepeatedId(summaries)

\* C9: a run whose author-list extraction returns no author writes nothing:
\* the extraction step leaves every file as it is, and the step after it
\* ends the run, leaving every file as it is.
C9_ZeroAuthorsNoWrite ==
    [][ /\ (pc = "idle" /\ pc' = "check") => files' = files
        /\ (pc = "check" /\ popes = <<>>) => (pc' = "idle" /\ files' = files)
      ]_vars

\* a second run has found no author and ended at once, on an output
\* directory that an earlier run had filled
C9_Witness ==
    /\ pc = "idle"
    /\ last = "no_popes"
    /\ runs = 2
    /\ files[PopesJson].t = "text"
    /\ files[PopePath("p1")].t = "text"

\* C10 (as claimed): a run that has found at least one author, and is not
\* stopped from outside, ends without raising, having written popes.json
\* and one popes/{id}.json per author found.
C10_RunCompletes ==
    [][ (pc # "idle" /\ pc' = "idle" /\ all_popes # <<>> /\ ~StopStep) =>
            /\ last' = "completed"
            /\ files'[PopesJson].t = "text"
            /\ \A i \in 1..Len(all_popes) :
                   files'[PopePath(all_popes[i].id)].t = "text"
      ]_vars

(***************************************************************************)
(* The index scraper and resume mode.                                      *)
(***************************************************************************)

\* the raw_html map of a readable persisted Document
PersistedRawHtml(file) == Get(Get(file.v, "metadata"), "raw_html")

\* the file is readable and records, for at least one language, raw
\* content that is not blank
HasPersistedContent(file) ==
    /\ file.t = "text"
    /\ IsDict(file.v)
    /\ \E i \in 1..Len(PersistedRawHtml(file).l) :
           ~IsBlank(PersistedRawHtml(file).l[i].s)

\* the candidates of the page scraped on its own
Candidates ==
    {i \in 1..Len(call.page.items) :
         call.page.items[i].langs # <<>> /\ call.page.items[i].id # ""}

CandidateFile(i) == files[DocumentPath(call.page.items[i].id)]

\* the Documents returned for the document id
Returned(id) == {j \in 1..Len(call.documents) : call.documents[j].id = id}

\* C11: in resume mode no content fetch is issued for a candidate whose
\* persisted file is readable and has non-blank raw content for at least
\* one language, and every Document returned for it carries the persisted
\* excerpt and raw content, whatever languages the index page lists.
C11_ResumeSkip ==
    (call.done /\ call.resume) =>
        \A i \in Candidates :
            HasPersistedContent(CandidateFile(i)) =>
                /\ \A k \in 1..Len(call.fetches) :
                       call.fetches[k] # call.page.items[i].id
                /\ \A j \in Returned(call.page.items[i].id) :
                       /\ call.documents[j].excerpt = Get(CandidateFile(i).v, "excerpt")
                       /\ Get(call.documents[j].metadata, "raw_html")
                              = PersistedRawHtml(CandidateFile(i))

\* in resume mode d1, persisted with content in one language and now listed
\* in two, was returned with its persisted content, while content was
\* fetched for another document of the page
C11_Witness ==
    /\ call.done /\ call.resume
    /\ call.fetches # <<>>
    /\ \E i \in Candidates :
           /\ HasPersistedContent(CandidateFile(i))
           /\ KeySet(PersistedRawHtml(CandidateFile(i))) = {"en"}
           /\ \E j \in Returned(call.page.items[i].id) :
                  KeySet(Get(call.documents[j].metadata, "vatican_urls")) = {"en", "la"}

\* C20 (as claimed): when resume is off or the candidate has no persisted
\* content, content is fetched for the candidate and, unless that fetch
\* itself fails, the candidate is in the list returned.
C20_FetchedWhenNotSkipped ==
    (call.done /\ call.page.fetched) =>
        \A i \in Candidates :
            (~call.resume \/ ~HasPersistedContent(CandidateFile(i))) =>
                /\ \E k \in 1..Len(call.fetches) :
                       call.fetches[k] = call.page.items[i].id
                /\ ~call.page.items[i].fetch.raises =>
                       Returned(call.page.items[i].id) # {}

\* C12 (as claimed): a run started with --resume calls no content fetch for
\* a document whose documents/{id}.json already holds non-blank fetched
\* content.
C12_ResumeFlagSkips ==
    [][ (pc = "authors" /\ args.resume) =>
            \A id \in DocumentIds :
                HasPersistedContent(files[DocumentPath(id)]) => id \notin fetched'
      ]_vars

\* C13 (as claimed): whenever no run is under way, also after a run was
\* stopped in the middle of a save, every file of the output directory is
\* absent or holds complete, decodable JSON.
C13_StoreValid ==
    pc = "idle" => \A p \in Paths : files[p].t \in {"absent", "text"}

(***************************************************************************)
(* The paginated listing.                                                  *)
(***************************************************************************)

\* the posts of the pages written, in page order
Listing ==
    LET f[n \in 0..Len(call.pages)] ==
            IF n = 0 THEN <<>> ELSE f[n - 1] \o call.pages[n].posts
    IN  f[Len(call.pages)]

\* the number of pages for n documents: the least number of pages of 50
\* that hold them all
PagesFor(n) == CHOOSE k \in 0..n : k * 50 >= n /\ (k = 0 \/ (k - 1) * 50 < n)

\* C14: for N loaded documents the pages written are numbered
\* 1..ceil(N/50); every page but the last holds 50 posts and the last holds
\* the rest; the pages in page order hold every document exactly once; every
\* page and the index carry total_pages = ceil(N/50) and total_posts = N.
C14_PaginationPartitions ==
    call.done =>
        LET N == Len(call.documents)
            last_page == PagesFor(N)
        IN  /\ Len(call.pages) = last_page
            /\ \A n \in 1..last_page :
                   /\ call.pages[n].meta.page = n
                   /\ call.pages[n].meta.total_pages = last_page
                   /\ call.pages[n].meta.total_posts = N
                   /\ Len(call.pages[n].posts)
                          = IF n < last_page THEN 50 ELSE N - 50 * (last_page - 1)
            /\ call.index.meta.total_pages = last_page
            /\ call.index.meta.total_posts = N
            /\ Len(Listing) = N
            /\ \A i \in 1..N :
                   Cardinality({j \in 1..N : Listing[j].id = call.documents[i].id}) = 1

\* 102 documents were listed on three pages, the last one holding two
C14_Witness ==
    /\ call.done
    /\ Len(call.documents) = 102
    /\ Len(call.pages) = 3
    /\ Len(call.pages[3].posts) = 2
    /\ Len(call.pages[1].posts) = 50

\* a canonical date: four digits, two digits, two digits, a calendar date
CanonicalDates == {"2015-05-24", "2003-04-17", "0001-01-01"}

\* the place of a listed document in the order the documents were loaded in
LoadedAt(post) == CHOOSE i \in 1..Len(call.documents) : call.documents[i].id = post.id

Canonical(text) ==
    /\ Len(text) = 10
    /\ \A i \in {1, 2, 3, 4, 6, 7, 9, 10} : IsDigit(text[i])
    /\ text[5] = "-"
    /\ text[8] = "-"

\* C16: for every input text the date normalizers parse_document_date and
\* parse_vatican_date do not raise, and return either none or a canonical
\* YYYY-MM-DD date.
C16_DateNormalizerTotal ==
    call.done =>
        /\ call.r.raised = "none"
        /\ call.r.none \/ Canonical(call.r.text)

\* the authors of popes.json and the authors the documents loaded refer to
ListedAuthors == {Get(call.popes_list[i], "id") : i \in 1..Len(call.popes_list)}

ReferredAuthors ==
    {Get(call.documents[i], "pope_id") :
         i \in {j \in 1..Len(call.documents) : HasKey(call.documents[j], "pope_id")}}

DocumentsOf(id) ==
    Cardinality({i \in 1..Len(call.documents) :
                     /\ HasKey(call.documents[i], "pope_id")
                     /\ Get(call.documents[i], "pope_id") = id})

FeedsCalled == call.op = "create_pope_feeds_api" /\ call.done

\* C17: create_pope_feeds_api writes one feed for each author of popes.json
\* that a persisted document refers to and no other feed; feed/index.json
\* lists these feeds, each once, in non-increasing order of document_count,
\* and meta.total_feeds is their number.
C17_FeedEmission ==
    FeedsCalled =>
        LET written == {call.feeds[i].pope_id : i \in 1..Len(call.feeds)}
            listed == Get(call.index, "feeds").l
        IN  /\ written = ListedAuthors \cap ReferredAuthors
            /\ Len(call.feeds) = Cardinality(written)
            /\ {Get(listed[i], "pope_id") : i \in 1..Len(listed)} = written
            /\ Len(listed) = Cardinality(written)
            /\ \A i \in 1..Len(listed) :
                   Get(listed[i], "document_count").n
                       = DocumentsOf(Get(listed[i], "pope_id"))
            /\ \A i \in 1..(Len(listed) - 1) :
                   Get(listed[i], "document_count").n
                       >= Get(listed[i + 1], "document_count").n
            /\ Get(Get(call.index, "meta"), "total_feeds").n = Len(listed)

\* two feeds, the one with more documents listed first though its documents
\* were loaded later, and a document of an author that popes.json lacks
C17_Witness ==
    /\ FeedsCalled
    /\ Len(call.feeds) = 2
    /\ call.feeds[1].pope_id = Str("p2")
    /\ Get(Get(call.index, "feeds").l[1], "pope_id") = Str("p1")
    /\ ReferredAuthors \ ListedAuthors # {}

UpdateCalled == call.op = "update_popes_with_document_counts" /\ call.done

\* C18: update_popes_with_document_counts completes, also when an author has
\* a null or unparseable reign-start date, and leaves in popes.json every
\* author that was in it, with document_count the number of its persisted
\* documents, in non-increasing order of document_count and, among equal
\* counts, ascending reign-start date.
C18_AuthorListResort ==
    UpdateCalled =>
        /\ ~call.raised
        /\ {Get(call.popes[i], "id") : i \in 1..Len(call.popes)} = ListedAuthors
        /\ Len(call.popes) = Len(call.popes_list)
        /\ \A i \in 1..Len(call.popes) :
               /\ HasKey(call.popes[i], "document_count")
               /\ Get(call.popes[i], "document_count").n
                      = DocumentsOf(Get(call.popes[i], "id"))
        /\ \A i \in 1..(Len(call.popes) - 1) :
               LET p == call.popes[i]
                   q == call.popes[i + 1]
               IN  /\ Get(p, "document_count").n >= Get(q, "document_count").n
                   /\ Get(p, "document_count").n = Get(q, "document_count").n =>
                          DateKey(p, "reign_start") <= DateKey(q, "reign_start")

\* the records of popes.json
AuthorList == files[PopesJson].v.l

\* C19: whatever runs of run_scraper, of update_popes_with_document_counts
\* and of the image downloader came before, also when the remote list links
\* an author twice, popes.json holds at most one record for an author id.
C19_AuthorIdsUnique ==
    files[PopesJson].t = "text" =>
        /\ IsList(files[PopesJson].v)
        /\ AllHaveId(AuthorList)
        /\ NoRepeatedId(AuthorList)

\* popes.json after two runs of run_scraper, resorted between them and last
\* written by the image downloader: two authors, with document counts and
\* image paths
C19_Witness ==
    /\ runs = 2
    /\ files[PopesJson].t = "text"
    /\ files[PopesJson].indent = ViewIndent
    /\ Len(AuthorList) = 2
    /\ \A i \in 1..2 :
           /\ HasKey(AuthorList[i], "document_count")
           /\ Get(AuthorList[i], "local_image_path") # JNull

\* what the loop does with the i-th candidate of the page taken on its own
OwnOutcome(i) ==
    ProcessCandidate(CandidateDocument(call.page.items[i], "p1", "encyclicals"),
                     call.page.items[i].fetch, call.resume, CandidateFile(i))

\* C21 (as claimed): an exception while one candidate of an index page is
\* built or fetched affects that candidate only; every other candidate of
\* the page, before and after it, is processed and is in the list returned.
C21_FailuresIndependent ==
    (call.done /\ call.page.fetched) =>
        \A i \in Candidates :
            ~OwnOutcome(i).raised =>
                \E j \in 1..Len(call.documents) :
                    call.documents[j] = OwnOutcome(i).document

\* the persisted record exists and cannot be read as a Document: it does
\* not decode as JSON, or what it decodes to is no record
Unreadable(file) ==
    \/ file.t \in {"garbage", "badbytes"}
    \/ file.t = "text" /\ ~IsDict(file.v)

\* C22 (as claimed): in resume mode, on a page where no content fetch
\* fails, a candidate whose persisted record is unreadable has its content
\* fetched and is in the list returned, and so is every other candidate of
\* the page.
C22_CorruptRecordFallback ==
    ( /\ call.done /\ call.resume /\ call.page.fetched
      /\ \A k \in Candidates : ~call.page.items[k].fetch.raises
      /\ \E i \in Candidates : Unreadable(CandidateFile(i)) ) =>
        /\ \A i \in Candidates :
               Unreadable(CandidateFile(i)) =>
                   /\ \E k \in 1..Len(call.fetches) :
                          call.fetches[k] = call.page.items[i].id
                   /\ Returned(call.page.items[i].id) # {}
        /\ Len(call.documents) = Cardinality(Candidates)

\* C23 (as claimed): when a run is interrupted between two of its steps,
\* every Document extracted so far in the run is present, readable, under
\* documents/ afterwards.
C23_InterruptionLeavesProgress ==
    [][ (StopStep /\ files' = files) =>
            \A i \in 1..Len(all_documents) :
                files'[DocumentPath(all_documents[i].id)].t = "text" ]_vars

\* C24: the page artifact numbered k out of P pages has has_prev true
\* exactly when k > 1, with prev_page k-1 and else none, and has_next true
\* exactly when k < P, with next_page k+1 and else none; so when there is a
\* page, exactly one page has no previous and exactly one has no next page.
C24_NavigationFlags ==
    call.done =>
        LET P == PagesFor(Len(call.documents))
            artifacts == 1..Len(call.pages)
        IN  /\ \A n \in artifacts :
                   LET k == call.pages[n].meta.page
                   IN  /\ call.pages[n].meta.has_prev = (k > 1)
                       /\ call.pages[n].meta.prev_page = IF k > 1 THEN k - 1 ELSE 0
                       /\ call.pages[n].meta.has_next = (k < P)
                       /\ call.pages[n].meta.next_page = IF k < P THEN k + 1 ELSE 0
            /\ P >= 1 =>
                   /\ Cardinality({n \in artifacts : ~call.pages[n].meta.has_prev}) = 1
                   /\ Cardinality({n \in artifacts : ~call.pages[n].meta.has_next}) = 1

\* three pages were written: the first without a previous page, the second
\* with both neighbours, the third without a next page
C24_Witness ==
    /\ call.done
    /\ Len(call.pages) = 3
    /\ ~call.pages[1].meta.has_prev /\ call.pages[1].meta.next_page = 2
    /\ call.pages[2].meta.has_prev /\ call.pages[2].meta.has_next
    /\ call.pages[3].meta.prev_page = 2 /\ ~call.pages[3].meta.has_next

\* the parts of the i-th href of the menu
PartsOf(i) == SplitOn(call.hrefs[i], "/", 1, <<>>, <<>>)

\* the i-th href is taken for an index URL, and its segment right after the
\* language segment is a year that another segment follows
YearLink(i) ==
    /\ Contains(call.hrefs[i], <<"/", "c", "o", "n", "t", "e", "n", "t", "/">>)
    /\ Contains(call.hrefs[i], <<".", "h", "t", "m", "l">>)
    /\ ~Contains(call.hrefs[i], <<"#">>)
    /\ index(PartsOf(i), <<"e", "n">>) > 0
    /\ index(PartsOf(i), <<"e", "n">>) + 2 <= Len(PartsOf(i))
    /\ isdigit(PartsOf(i)[index(PartsOf(i), <<"e", "n">>) + 1])

\* the URLs recorded under the type in the index of the author
RecordedUnder(doc_type) ==
    IF HasKey(IndexOf(call.pope), doc_type)
    THEN {Get(IndexOf(call.pope), doc_type).l[k].s :
              k \in 1..Len(Get(IndexOf(call.pope), doc_type).l)}
    ELSE {}

\* C25 (as claimed): the index URL of a sidebar link whose segment right
\* after the language segment is a year is recorded under the type given by
\* the segment after the year, underscores written as hyphens, and not
\* under the year.
C25_YearSegmentSkipped ==
    call.done =>
        \A i \in 1..Len(call.hrefs) :
            YearLink(i) =>
                LET li == index(PartsOf(i), <<"e", "n">>)
                    url == Text(urljoin(BASE_URL, call.hrefs[i]))
                    year == Text(PartsOf(i)[li + 1])
                    type == Text(replace(Without(PartsOf(i)[li + 2], <<".", "i", "n", "d", "e", "x", ".", "h", "t", "m", "l">>, 1),
                                         "_", "-"))
                IN  /\ url \in RecordedUnder(type)
                    /\ url \notin RecordedUnder(year)

\* the vatican_urls map of a readable persisted Document record
PersistedUrls(file) ==
    GetOr(GetOr(file.v, "metadata", EmptyDict), "vatican_urls", EmptyDict)

\* every Document record readable under documents/ has a language URL
AllHaveUrl(fs) ==
    \A id \in DocumentIds :
        (fs[DocumentPath(id)].t = "text" /\ IsDict(fs[DocumentPath(id)].v)) =>
            KeySet(PersistedUrls(fs[DocumentPath(id)])) # {}

\* C26: every Document returned has an id and at least one language URL; a
\* list item without a usable language link gives no Document and does not
\* end the page: when no candidate of the page fails, every candidate is
\* returned; and once the Documents returned are persisted, every Document
\* record under documents/ has a language URL, as it had before.
C26_LanguageUrlPresent ==
    /\ ~call.done => AllHaveUrl(files)
    /\ call.done =>
           /\ \A j \in 1..Len(call.documents) :
                  /\ call.documents[j].id \in DocumentIds
                  /\ KeySet(Get(call.documents[j].metadata, "vatican_urls")) # {}
           /\ Len(call.documents) <= Cardinality(Candidates)
           /\ (call.page.fetched /\ \A i \in Candidates : ~OwnOutcome(i).raised) =>
                  Len(call.documents) = Cardinality(Candidates)
    /\ call.saved => AllHaveUrl(call.after)

\* the page listed an item without a language link and then d2; d2 was
\* returned and persisted next to the record of d1
C26_Witness ==
    /\ call.saved
    /\ Len(call.page.items) = 2
    /\ call.page.items[1].langs = <<>>
    /\ Len(call.documents) = 1
    /\ call.documents[1].id = "d2"
    /\ call.after[DocumentPath("d2")].t = "text"
    /\ KeySet(PersistedUrls(call.after[DocumentPath("d2")])) = {"en"}
    /\ call.after[DocumentPath("d1")].t = "text"

\* the per-type lists of the author: the types, and the list of a type
TypesOf(pope) == {pope.documents[i].type : i \in 1..Len(pope.documents)}

ListOf(pope, doc_type) ==
    IF doc_type \in TypesOf(pope)
    THEN pope.documents[CHOOSE i \in 1..Len(pope.documents) :
                            pope.documents[i].type = doc_type].docs
    ELSE <<>>

\* C27: when scrape_and_add_documents_to_pope(pope, t) returns the list D,
\* pope.documents[t] is what it was followed by |D| summaries, the j-th one
\* carrying the id, pope_id, type, date, title and excerpt of D[j]; the list
\* of every other type is what it was.
C27_OneSummaryPerDocument ==
    call.done =>
        LET before == ListOf(call.pope, call.doc_type)
            after == ListOf(call.after, call.doc_type)
            D == call.returned
        IN  /\ Len(after) = Len(before) + Len(D)
            /\ SubSeq(after, 1, Len(before)) = before
            /\ \A j \in 1..Len(D) :
                   LET summary == after[Len(before) + j]
                   IN  /\ summary.id = D[j].id
                       /\ summary.pope_id = D[j].pope_id
                       /\ summary.type = D[j].type
                       /\ summary.date = D[j].date
                       /\ summary.title = D[j].title
                       /\ summary.excerpt = D[j].excerpt
            /\ TypesOf(call.after) \subseteq TypesOf(call.pope) \cup {call.doc_type}
            /\ \A other \in TypesOf(call.pope) \ {call.doc_type} :
                   ListOf(call.after, other) = ListOf(call.pope, other)

\* the author held one summary of the type and one of another type; the two
\* index URLs of the type gave two Documents, the first with an excerpt, and
\* the list of the type now holds three summaries
C27_Witness ==
    /\ call.done
    /\ call.doc_type = "encyclicals"
    /\ Len(ListOf(call.pope, "encyclicals")) = 1
    /\ Len(ListOf(call.pope, "letters")) = 1
    /\ Len(call.returned) = 2
    /\ call.returned[1].excerpt # EmptyDict
    /\ Len(ListOf(call.after, "encyclicals")) = 3

\* the same documents, enumerated in the opposite order
Reversed(xs) == [i \in 1..Len(xs) |-> xs[Len(xs) + 1 - i]]

\* C28 (as claimed): the page files and the index written for a set of
\* Document records do not depend on the order in which the directory
\* listing enumerates the document files: the same records enumerated in
\* the opposite order give the same artifacts.
C28_ViewsDeterministic ==
    call.done =>
        create_paginated_posts_api(Reversed(call.documents), LoadedPopes)
            = [pages |-> call.pages, index |-> call.index]

\* the last call was of the generator and has written its files
ViewsWritten(op) == call.op = op /\ ~call.raised

\* C29: a call of create_paginated_posts_api or of create_pope_feeds_api
\* leaves popes.json, every popes/{id}.json and every documents/{id}.json
\* as it found them; the first writes under posts/ only, the second under
\* feed/ only.
C29_ViewsLeaveEntities ==
    [][ /\ \A p \in EntityPaths : files'[p] = files[p]
        /\ \A p \in Paths :
               files'[p] # files[p] =>
                   p[1] = IF call'.op = "create_paginated_posts_api"
                          THEN "posts" ELSE "feed" ]_vars

\* both generators have written their files for a store with two documents
\* of author p1, and the entity files are there as before
C29_Witness ==
    /\ ViewsWritten("create_pope_feeds_api")
    /\ files[FeedPath("p1")].t = "text"
    /\ files[FeedIndexPath].t = "text"
    /\ files[PostsIndexPath].t = "text"
    /\ files[PostsPagePath(1)].t = "text"
    /\ Len(files[PostsPagePath(1)].v.posts) = 2
    /\ files[PopesJson] = StoredPopes(<<"p1", "p2">>)
    /\ files[DocumentPath("d2")] = PersistedDocument("d2", <<"en">>, <<"old html">>)

\* the ids that the Document Summaries of a persisted Author record refer to
SummaryIds(author) ==
    UNION { {IdOf(summaries[k]).s : k \in 1..Len(summaries)} :
                summaries \in SummaryLists(author) }

\* C30 (as claimed): in the persistence stage a run writes an Author file,
\* popes/{id}.json or popes.json, only when every Document it has gathered
\* has its documents/{id}.json written, and popes.json only at the end of
\* the stage; so at every point, also after an interruption, every Document
\* Summary in a persisted Author record refers to a Document whose file has
\* been written.
C30_DocumentsBeforeAuthors ==
    [][ /\ ( /\ ~StopStep
             /\ \E p \in {PopesJson} \cup {PopePath(id) : id \in PopeIds} :
                    files'[p] # files[p] ) =>
                 \A i \in 1..Len(all_documents) :
                     files[DocumentPath(all_documents[i].id)].t = "text"
        /\ (~StopStep /\ files'[PopesJson] # files[PopesJson]) => pc = "save_list"
        /\ \A r \in PersistedAuthors(files') :
               \A id \in SummaryIds(r.author) : files'[DocumentPath(id)].t # "absent"
      ]_vars

\* a run has written its two documents and the author that lists them, and
\* is about to write popes.json, which is not there yet
C30_Witness ==
    /\ pc = "save_list"
    /\ Len(all_documents) = 2
    /\ files[PopesJson].t = "absent"
    /\ \E r \in PersistedAuthors(files) : SummaryIds(r.author) = {"d1", "d2"}

====
